---- MODULE Spec2Model ----
(***************************************************************************)
(* A model of the dimensions package of golib (ds/matrix/dimensions): the  *)
(* dimension codec D (New, Index, Offsets, Contains, Size, Length), the    *)
(* Crop mapping and the Sampler parser.                                    *)
(*                                                                         *)
(* Go's int is modelled by TLA+ integers (no value of the model comes near *)
(* the 64-bit limits); Go's / and % truncate towards zero and are modelled *)
(* by GoDiv and GoMod. Slices and arrays are sequences, indexed from 1, so *)
(* axis i of the code is position i+1 of the model.                        *)
(***************************************************************************)
EXTENDS Integers, Sequences, FiniteSets, TLC

VARIABLES
    shape,      \* the D held by the caller: [impl, lens]
    call,       \* the last call made on the codec: [op, args, idx]
    ret,        \* what that call returned: [tag, n, v, b, err]
    cmap,       \* the Map returned by Crop: [ok, target, startIdx, asked, start, new]
    ccall,      \* the last call made on the crop: [op, args]
    cret,       \* the offsets MapOffsets wrote to dest
    sin,        \* the arguments of the last Sampler call: [spec, constants]
    smapper,    \* what Sampler returned: a Mapper or a SamplerSyntaxError
    sbound,     \* the Map the last Bind of that Mapper returned: [tag, original, new, err]
    scall,      \* the last call made on that Map: [op, args]
    sret,       \* what that call returned: [tag, n, v, b, err]
    ms,         \* the matrices the caller holds, one of each kind: [kind, D, values]
    mcall,      \* the last call made on the matrices: [op, args]
    mret,       \* what that call returned on each of them
    csrc,       \* the source matrix of Copy
    cdest,      \* the destination matrix of Copy
    copied,     \* what Copy did, once it has been called
    vparent,    \* the parent matrix of the view
    view,       \* the View over vparent: [kind, D, original, crop, mapper]
    vcall,      \* the last call made on the view: [op, args]
    g2,         \* the grid of matrix2: [nil, dims, mem, values]
    g2call,     \* the last call made on the grid: [op, args]
    g2ret,      \* what that call did
    rm,         \* the matrix that is reduced: [pkg, g]
    rcall,      \* the last call made on it: [op, args]
    rret,       \* what that call returned
    bs,         \* the bitseq.Store: [tracked, length, buckets, numTrue]
    bcall,      \* the last call made on it: [op, args]
    bret,       \* what that call returned
    ga,         \* the genarray.Store: [masked, mask, limit, generations, glen, values, vlen, filled, active, gaps]
    gkeys,      \* the keys the caller holds: [live, dead]
    gcall,      \* the last call made on the store: [op, args]
    gret,       \* what that call returned
    kcall,      \* the last call of package checked: [op, args]
    kret,       \* what that call returned: (value, ok)
    ocall,      \* the last call of diagonalOffset: [op, args]
    oret        \* what that call returned

dvars == <<shape, call, ret>>
cvars == <<cmap, ccall, cret>>
svars == <<sin, smapper, sbound, scall, sret>>
mvars == <<ms, mcall, mret>>
copyvars == <<csrc, cdest, copied>>
vvars == <<vparent, view, vcall>>
g2vars == <<g2, g2call, g2ret>>
rvars == <<rm, rcall, rret>>
bvars == <<bs, bcall, bret>>
gvars == <<ga, gkeys, gcall, gret>>
kvars == <<kcall, kret>>
ovars == <<ocall, oret>>
vars  == <<dvars, cvars, svars, mvars, copyvars, vvars, g2vars, rvars, bvars, gvars, kvars, ovars>>

\* what the operations on one of these leave alone
notD == <<cvars, svars, mvars, copyvars, vvars, g2vars, rvars, bvars, gvars, kvars, ovars>>
notC == <<dvars, svars, mvars, copyvars, vvars, g2vars, rvars, bvars, gvars, kvars, ovars>>
notS == <<dvars, cvars, mvars, copyvars, vvars, g2vars, rvars, bvars, gvars, kvars, ovars>>
notM == <<dvars, cvars, svars, copyvars, vvars, g2vars, rvars, bvars, gvars, kvars, ovars>>
notCopy == <<dvars, cvars, svars, mvars, vvars, g2vars, rvars, bvars, gvars, kvars, ovars>>
notV == <<dvars, cvars, svars, mvars, copyvars, g2vars, rvars, bvars, gvars, kvars, ovars>>
notG2 == <<dvars, cvars, svars, mvars, copyvars, vvars, rvars, bvars, gvars, kvars, ovars>>
notR == <<dvars, cvars, svars, mvars, copyvars, vvars, g2vars, bvars, gvars, kvars, ovars>>
notB == <<dvars, cvars, svars, mvars, copyvars, vvars, g2vars, rvars, gvars, kvars, ovars>>
notG == <<dvars, cvars, svars, mvars, copyvars, vvars, g2vars, rvars, bvars, kvars, ovars>>
notK == <<dvars, cvars, svars, mvars, copyvars, vvars, g2vars, rvars, bvars, gvars, ovars>>
notO == <<dvars, cvars, svars, mvars, copyvars, vvars, g2vars, rvars, bvars, gvars, kvars>>

----------------------------------------------------------------------------
(* Bounds of the model *)

\* the largest Size() of a shape New is asked for
MaxSize == 6
\* the largest number of axes of a shape that is cropped
MaxCropDims == 2
\* the longest Sampler string over the small alphabet
MaxSpecLen == 4
\* the largest number of constants given to Sampler
MaxConsts == 1
\* the largest new offset MapOffsets of a sampled Map is called with
MaxOffset == 4

----------------------------------------------------------------------------
(* Go arithmetic *)

Abs(x) == IF x < 0 THEN -x ELSE x

\* Go's integer division truncates towards zero
GoDiv(a, b) ==
    IF (a < 0) = (b < 0) THEN Abs(a) \div Abs(b) ELSE -(Abs(a) \div Abs(b))

\* Go's remainder has the sign of the dividend
GoMod(a, b) == a - (b * GoDiv(a, b))

----------------------------------------------------------------------------
(* The dimension codec *)

\* the limit on the number of dimensions in New
LimitDims == 64

\* D4 is the last of the fixed-size implementations D1, D2, D3, D4; New
\* returns the generic dN from the next dimensionality on
FixedDims == 4

\* the dimensionalities New is called with: each fixed-size implementation and
\* the first (5-dimensional) generic one
MaxDims == FixedDims + 1

NoShape == [impl |-> "none", lens |-> <<>>]

NoRet == [tag |-> "none", n |-> 0, v |-> <<>>, b |-> FALSE, err |-> ""]
IntRet(x)   == [NoRet EXCEPT !.tag = "int", !.n = x]
VecRet(x)   == [NoRet EXCEPT !.tag = "vec", !.v = x]
BoolRet(x)  == [NoRet EXCEPT !.tag = "bool", !.b = x]
PanicRet(e) == [NoRet EXCEPT !.tag = "panic", !.err = e]
ShapeRet(s) == [NoRet EXCEPT !.tag = "D", !.v = s.lens, !.err = s.impl]

\* func ascii(x int) int
ascii(x) ==
    IF x <= 64 THEN x
    ELSE LET u == IF x >= 97 THEN x - 32 ELSE x
         IN  CASE u = 88 -> 0
               [] u = 89 -> 1
               [] u = 90 -> 2
               [] u = 87 -> 3
               [] OTHER  -> x

\* func New(sizes ... int) D: the shape returned, or the error it panics with
New(sizes) ==
    IF Len(sizes) > LimitDims THEN PanicRet("errLimitDims")
    ELSE IF \E i \in 1..Len(sizes) : sizes[i] = 0 THEN PanicRet("errZeroSize")
    ELSE IF Len(sizes) <= 0 THEN PanicRet("errZeroDims")
    ELSE CASE Len(sizes) = 1 -> ShapeRet([impl |-> "D1", lens |-> sizes])
           [] Len(sizes) = 2 -> ShapeRet([impl |-> "D2", lens |-> sizes])
           [] Len(sizes) = 3 -> ShapeRet([impl |-> "D3", lens |-> sizes])
           [] Len(sizes) = 4 -> ShapeRet([impl |-> "D4", lens |-> sizes])
           [] OTHER          -> ShapeRet([impl |-> "dN", lens |-> sizes])

\* func dimensionsContains(dims []int, offsets []int) bool, from offset i on
RECURSIVE containsFrom(_, _, _)
containsFrom(dims, offsets, i) ==
    IF i > Len(offsets) THEN TRUE
    ELSE IF (i <= Len(dims)) /\ (offsets[i] >= dims[i]) THEN FALSE
    ELSE IF (i > Len(dims)) /\ (offsets[i] > 0) THEN FALSE
    ELSE IF offsets[i] < 0 THEN FALSE
    ELSE containsFrom(dims, offsets, i + 1)

\* a bug: the offsets past the dimensionality are not looked at
dimensionsContainsNoTrailing(dims, offsets) ==
    containsFrom(dims,
                 SubSeq(offsets, 1, IF Len(offsets) < Len(dims) THEN Len(offsets)
                                    ELSE Len(dims)),
                 1)

dimensionsContains(dims, offsets) == containsFrom(dims, offsets, 1)

(* D1 *)
D1Size(r) == r[1]
D1Index(r, offsets) == GoMod(offsets[1], r[1])
D1Offsets(r, idx) == <<GoMod(idx, r[1])>>

(* D2 *)
D2Size(r) == r[1] * r[2]
\* a bug: the row stride is the height, not the width
D2IndexHeightStride(r, offsets) ==
    LET x == GoMod(offsets[1], r[1])
        y == GoMod(offsets[2], r[2])
        h == r[2]
    IN  (y * h) + x

D2Index(r, offsets) ==
    LET x == GoMod(offsets[1], r[1])
        y == GoMod(offsets[2], r[2])
        w == r[1]
    IN  (y * w) + x
D2Offsets(r, idx) ==
    LET w == r[1]
        h == r[2]
        x == GoMod(idx, w)
        y == GoMod(GoDiv(idx, w), h)
    IN  <<x, y>>

(* D3 *)
D3Size(r) == r[1] * r[2] * r[3]
D3Index(r, offsets) ==
    LET x == GoMod(offsets[1], r[1])
        y == GoMod(offsets[2], r[2])
        z == GoMod(offsets[3], r[3])
        w == r[1]
        h == r[2]
    IN  (z * w * h) + (y * w) + x
D3Offsets(r, idx) ==
    LET w == r[1]
        h == r[2]
        d == r[3]
        x == GoMod(idx, w)
        y == GoMod(GoDiv(idx, w), h)
        z == GoMod(GoDiv(idx, w * h), d)
    IN  <<x, y, z>>

(* D4 *)
D4Size(r) == r[1] * r[2] * r[3] * r[4]
D4Index(r, offsets) ==
    LET x == GoMod(offsets[1], r[1])
        y == GoMod(offsets[2], r[2])
        z == GoMod(offsets[3], r[3])
        e == GoMod(offsets[4], r[4])
        w == r[1]
        h == r[2]
        d == r[3]
    IN  (e * w * h * d) + (z * w * h) + (y * w) + x
\* a bug: the stride of the fourth axis leaves out the depth
D4OffsetsShortStride(r, idx) ==
    LET w == r[1]
        h == r[2]
        d == r[3]
        e == r[4]
        x == GoMod(idx, w)
        y == GoMod(GoDiv(idx, w), h)
        z == GoMod(GoDiv(idx, w * h), d)
        u == GoMod(GoDiv(idx, w * h), e)
    IN  <<x, y, z, u>>

D4Offsets(r, idx) ==
    LET w == r[1]
        h == r[2]
        d == r[3]
        e == r[4]
        x == GoMod(idx, w)
        y == GoMod(GoDiv(idx, w), h)
        z == GoMod(GoDiv(idx, w * h), d)
        u == GoMod(GoDiv(idx, w * h * d), e)
    IN  <<x, y, z, u>>

(* dN *)
RECURSIVE dNSizeLoop(_, _, _)
dNSizeLoop(r, i, total) ==
    IF i > Len(r) THEN total ELSE dNSizeLoop(r, i + 1, total * r[i])
dNSize(r) == dNSizeLoop(r, 1, 1)

RECURSIVE dNIndexLoop(_, _, _, _, _)
dNIndexLoop(r, offsets, i, stride, total) ==
    IF i > Len(r) THEN total
    ELSE dNIndexLoop(r, offsets, i + 1, stride * r[i],
                     total + (GoMod(offsets[i], r[i]) * stride))
dNIndex(r, offsets) == dNIndexLoop(r, offsets, 1, 1, 0)

RECURSIVE dNOffsetsLoop(_, _, _, _, _)
dNOffsetsLoop(r, idx, i, stride, dest) ==
    IF i > Len(r) THEN dest
    ELSE dNOffsetsLoop(r, idx, i + 1, stride * r[i],
                       Append(dest, GoMod(GoDiv(idx, stride), r[i])))
dNOffsets(r, idx) == dNOffsetsLoop(r, idx, 2, r[1], <<GoMod(idx, r[1])>>)

(* The D interface, dispatched on the concrete type *)
Dimensionality(s) == Len(s.lens)

Size(s) ==
    CASE s.impl = "D1" -> D1Size(s.lens)
      [] s.impl = "D2" -> D2Size(s.lens)
      [] s.impl = "D3" -> D3Size(s.lens)
      [] s.impl = "D4" -> D4Size(s.lens)
      [] OTHER         -> dNSize(s.lens)

Index(s, offsets) ==
    CASE s.impl = "D1" -> D1Index(s.lens, offsets)
      [] s.impl = "D2" -> D2Index(s.lens, offsets)
      [] s.impl = "D3" -> D3Index(s.lens, offsets)
      [] s.impl = "D4" -> D4Index(s.lens, offsets)
      [] OTHER         -> dNIndex(s.lens, offsets)

Offsets(s, idx) ==
    CASE s.impl = "D1" -> D1Offsets(s.lens, idx)
      [] s.impl = "D2" -> D2Offsets(s.lens, idx)
      [] s.impl = "D3" -> D3Offsets(s.lens, idx)
      [] s.impl = "D4" -> D4Offsets(s.lens, idx)
      [] OTHER         -> dNOffsets(s.lens, idx)

Contains(s, offsets) == dimensionsContains(s.lens, offsets)

\* Length(idx): idx is the zero-based axis of the code
Length(s, idx) ==
    LET a == ascii(idx)
    IN  IF a < Dimensionality(s) THEN s.lens[a + 1] ELSE 0

----------------------------------------------------------------------------
(* Inputs *)

\* the sequences of n lengths >= 1 whose product is at most v
RECURSIVE SizesUpTo(_, _)
SizesUpTo(n, v) ==
    IF n = 0 THEN {<<>>}
    ELSE UNION {{Append(t, x) : t \in SizesUpTo(n - 1, v \div x)} : x \in 1..v}

\* the sequences of n elements of S
RECURSIVE TuplesOver(_, _)
TuplesOver(S, n) ==
    IF n = 0 THEN {<<>>}
    ELSE {Append(t, x) : t \in TuplesOver(S, n - 1), x \in S}

ValidSizes == UNION {SizesUpTo(n, MaxSize) : n \in 1..MaxDims}

\* what New must refuse: no lengths, zero and negative lengths, too many lengths
BadSizes ==
    {<<>>, [i \in 1..(LimitDims + 1) |-> 1]}
    \cup {t \in UNION {TuplesOver({-1, 0, 1}, n) : n \in 1..MaxDims} :
            \E i \in 1..Len(t) : t[i] < 1}
    \cup {<<-2>>, <<-3>>, <<2, -2>>, <<-3, 2>>}

NewInputs == ValidSizes \cup BadSizes

\* one offset per axis, each from -1 (negative) to the length (which wraps to 0)
RECURSIVE OffsetInputs(_, _)
OffsetInputs(lens, n) ==
    IF n = 0 THEN {<<>>}
    ELSE {Append(t, x) : t \in OffsetInputs(lens, n - 1),
                         x \in (-1)..Abs(lens[n])}

\* Contains also takes offsets past the dimensionality
ContainsInputs(lens) ==
    OffsetInputs(lens, Len(lens))
    \cup {Append(t, x) : t \in OffsetInputs(lens, Len(lens)), x \in {-1, 0, 1}}

\* indexes from -1 to Size(), which wraps to 0
IndexInputs(s) == (-1)..Abs(Size(s))

----------------------------------------------------------------------------
(* The codec as a state machine: a caller builds a D, calls one of its      *)
(* methods, takes the result, calls again, and in the end drops the D.      *)

NoCall == [op |-> "none", args |-> <<>>, idx |-> 0]

\* the caller holds a D and no call is being looked at
Ready == shape # NoShape /\ call = NoCall

DInit ==
    /\ shape = NoShape
    /\ call = NoCall
    /\ ret = NoRet

CallNew ==
    /\ shape = NoShape /\ call = NoCall
    /\ \E sizes \in NewInputs :
        LET r == New(sizes)
        IN  /\ call' = [op |-> "New", args |-> sizes, idx |-> 0]
            /\ ret' = r
            /\ shape' = IF r.tag = "D" THEN [impl |-> r.err, lens |-> r.v] ELSE NoShape
    /\ UNCHANGED <<notD>>

\* dN(sizes): the generic implementation built directly from 1 to 4 lengths
CastDN ==
    /\ shape = NoShape /\ call = NoCall
    /\ \E sizes \in ValidSizes :
        /\ Len(sizes) <= FixedDims
        /\ call' = [op |-> "dN", args |-> sizes, idx |-> 0]
        /\ shape' = [impl |-> "dN", lens |-> sizes]
        /\ ret' = ShapeRet(shape')
    /\ UNCHANGED <<notD>>

CallIndex ==
    /\ Ready
    /\ \E offsets \in OffsetInputs(shape.lens, Len(shape.lens)) :
        /\ call' = [op |-> "Index", args |-> offsets, idx |-> 0]
        /\ ret' = IntRet(Index(shape, offsets))
    /\ UNCHANGED <<shape, notD>>

CallOffsets ==
    /\ Ready
    /\ \E idx \in IndexInputs(shape) :
        /\ call' = [op |-> "Offsets", args |-> <<>>, idx |-> idx]
        /\ ret' = VecRet(Offsets(shape, idx))
    /\ UNCHANGED <<shape, notD>>

CallContains ==
    /\ Ready
    /\ \E offsets \in ContainsInputs(shape.lens) :
        /\ call' = [op |-> "Contains", args |-> offsets, idx |-> 0]
        /\ ret' = BoolRet(Contains(shape, offsets))
    /\ UNCHANGED <<shape, notD>>

CallSize ==
    /\ Ready
    /\ call' = [op |-> "Size", args |-> <<>>, idx |-> 0]
    /\ ret' = IntRet(Size(shape))
    /\ UNCHANGED <<shape, notD>>

CallDimensionality ==
    /\ Ready
    /\ call' = [op |-> "Dimensionality", args |-> <<>>, idx |-> 0]
    /\ ret' = IntRet(Dimensionality(shape))
    /\ UNCHANGED <<shape, notD>>

\* the caller has taken the result of the last call
Return ==
    /\ call # NoCall
    /\ call' = NoCall
    /\ ret' = NoRet
    /\ UNCHANGED <<shape, notD>>

\* the caller lets go of its D
Drop ==
    /\ Ready
    /\ shape' = NoShape
    /\ UNCHANGED <<call, ret, notD>>


----------------------------------------------------------------------------
(* Crop *)

NoMap == [ok |-> FALSE, target |-> NoShape, startIdx |-> 0, asked |-> <<>>,
          start |-> <<>>, new |-> NoShape]

\* the loop of Crop that crops the lengths to the dimension boundaries
cropLengths(target, startOffsets, lengths) ==
    [i \in 1..Len(lengths) |->
        IF i <= Dimensionality(target)
           /\ startOffsets[i] + lengths[i] > Length(target, i - 1)
        THEN Length(target, i - 1) - startOffsets[i]
        ELSE lengths[i]]

\* func Crop(target D, startIdx int, lengths ... int) Map: the mapping bound
\* to target (Mapper.Bind calls Shapes, which calls New on the lengths)
Crop(target, startIdx, lengths) ==
    LET startOffsets == Offsets(target, startIdx)
        new == New(cropLengths(target, startOffsets, lengths))
    IN  [ok       |-> new.tag = "D",
         target   |-> target,
         startIdx |-> startIdx,
         asked    |-> lengths,
         start    |-> startOffsets,
         new      |-> IF new.tag = "D" THEN [impl |-> new.err, lens |-> new.v]
                      ELSE NoShape]

\* a bug: the new offset is not wrapped on the new shape
cropMapOffsetsNoInnerWrap(m, source) ==
    [i \in 1..Dimensionality(m.target) |->
        IF i > Len(source) THEN 0
        ELSE GoMod(m.start[i] + source[i], Length(m.target, i - 1))]

\* the Offsets closure of Crop, called through mapping.MapOffsets with a dest
\* of one element per axis of the original shape
cropMapOffsets(m, source) ==
    [i \in 1..Dimensionality(m.target) |->
        IF i > Len(source) THEN 0
        ELSE GoMod(m.start[i] + GoMod(source[i], Length(m.new, i - 1)),
                   Length(m.target, i - 1))]

\* the shapes that are cropped: New of 1 to MaxCropDims lengths >= 1, and the
\* shapes New returns for negative lengths
CropTargets ==
    {[impl |-> New(t).err, lens |-> t] :
        t \in UNION {SizesUpTo(n, MaxSize) : n \in 1..MaxCropDims}
               \cup {<<-2>>, <<-3>>, <<2, -2>>, <<-3, 2>>}}

\* one positive length per axis, up to one more than the target has
RECURSIVE CropLengthInputs(_, _)
CropLengthInputs(lens, n) ==
    IF n = 0 THEN {<<>>}
    ELSE {Append(t, x) : t \in CropLengthInputs(lens, n - 1),
                         x \in 1..(Abs(lens[n]) + 1)}

\* one non-negative offset per axis, up to the length of the target
RECURSIVE SourceInputs(_, _)
SourceInputs(lens, n) ==
    IF n = 0 THEN {<<>>}
    ELSE {Append(t, x) : t \in SourceInputs(lens, n - 1),
                         x \in 0..Abs(lens[n])}

NoCCall == [op |-> "none", args |-> <<>>]

\* startIdx is the index of a start point on the target, or Size(), which
\* wraps to 0, or -1
CallCrop ==
    /\ cmap = NoMap /\ ccall = NoCCall
    /\ \E target \in CropTargets :
        \E startIdx \in IndexInputs(target) :
            \E lengths \in CropLengthInputs(target.lens, Len(target.lens)) :
                /\ cmap' = Crop(target, startIdx, lengths)
                /\ ccall' = [op |-> "Crop", args |-> lengths]
    /\ cret' = <<>>
    /\ UNCHANGED <<notC>>

CallMapOffsets ==
    /\ cmap.ok /\ ccall.op = "Crop"
    /\ \E source \in SourceInputs(cmap.target.lens, Len(cmap.target.lens)) :
        /\ ccall' = [op |-> "MapOffsets", args |-> source]
        /\ cret' = cropMapOffsets(cmap, source)
    /\ UNCHANGED <<cmap, notC>>

\* the caller has read dest
CReturn ==
    /\ ccall.op = "MapOffsets"
    /\ ccall' = [op |-> "Crop", args |-> cmap.asked]
    /\ cret' = <<>>
    /\ UNCHANGED <<cmap, notC>>

\* the caller lets go of the Map
CDrop ==
    /\ ccall.op = "Crop"
    /\ cmap' = NoMap
    /\ ccall' = NoCCall
    /\ cret' = <<>>
    /\ UNCHANGED <<notC>>

CInit ==
    /\ cmap = NoMap
    /\ ccall = NoCCall
    /\ cret = <<>>


----------------------------------------------------------------------------
(* Sampler *)

\* a string is the sequence of its bytes
Chr(c) ==
    CASE c = "\t" -> 9   [] c = "\n" -> 10  [] c = " " -> 32
      [] c = "!" -> 33   [] c = "-" -> 45
      [] c = "0" -> 48   [] c = "9" -> 57
      [] c = "A" -> 65   [] c = "F" -> 70
      [] c = "W" -> 87   [] c = "X" -> 88   [] c = "Y" -> 89   [] c = "Z" -> 90
      [] c = "a" -> 97   [] c = "f" -> 102
      [] c = "w" -> 119  [] c = "x" -> 120  [] c = "y" -> 121  [] c = "z" -> 122

mask_index  == 15
mask_mirror == 64
mask_const  == 128
nothing     == 255

NoMapper ==
    [tag |-> "none", outputs |-> <<>>, currentOutput |-> 0, newDims |-> 0,
     constants |-> <<>>, Offset |-> 0, Unexpected |-> 0, Reason |-> ""]

\* panic(SamplerSyntaxError{Offset, Input, Unexpected, Reason})
SamplerSyntaxError(offset, unexpected, reason) ==
    [NoMapper EXCEPT !.tag = "SamplerSyntaxError", !.Offset = offset,
                     !.Unexpected = unexpected, !.Reason = reason]

\* a bug: seen & (1 << idx) == 1, which only ever finds dimension 0
seenBitEqualsOne(seen, idx) == idx = 0 /\ seen % 2 = 1

\* seen & (1 << idx) == (1 << idx), on the uint16 seen
seenBit(seen, idx) == (seen \div (2 ^ idx)) % 2 = 1

\* the index a byte names in the parse loop, or nothing; "unexpected" for
\* the default case of the switch
samplerIdx(c, precede) ==
    IF ((c = Chr("-")) \/ (c = Chr("!"))) /\ precede = nothing THEN nothing
    ELSE IF c >= Chr("0") /\ c <= Chr("9") THEN c - Chr("0")
    ELSE IF c >= Chr("a") /\ c <= Chr("f") THEN c - Chr("a")
    ELSE IF c >= Chr("A") /\ c <= Chr("F") THEN c - Chr("A")
    ELSE CASE c = Chr("x") -> 0
           [] c = Chr("y") -> 1
           [] c = Chr("z") -> 2
           [] c = Chr("w") -> 3
           [] c = Chr("X") -> 0
           [] c = Chr("Y") -> 1
           [] c = Chr("Z") -> 2
           [] c = Chr("W") -> 3
           [] OTHER        -> -1

\* the parse loop of Sampler from byte i (1-based) on; p is the state of its
\* local variables
RECURSIVE samplerParse(_, _, _, _)
samplerParse(reorder, constants, i, p) ==
    IF i > Len(reorder) THEN
        IF p.newDims = 0
        THEN SamplerSyntaxError(0, 0, "must have at least one non-constant output")
        ELSE [NoMapper EXCEPT !.tag = "Mapper",
                              !.outputs = p.outputs,
                              !.currentOutput = p.currentOutput,
                              !.newDims = p.newDims,
                              !.constants = SubSeq(constants, 1, p.currentConstant)]
    ELSE
        LET c   == reorder[i]
            idx == samplerIdx(c, p.precede)
        IN  IF c = Chr("\t") \/ c = Chr("\n") \/ c = Chr(" ")
            THEN samplerParse(reorder, constants, i + 1, p)
            ELSE IF ((c = Chr("-")) \/ (c = Chr("!"))) /\ p.precede = nothing
            THEN samplerParse(reorder, constants, i + 1, [p EXCEPT !.precede = c])
            ELSE IF idx = -1
            THEN SamplerSyntaxError(i - 1, c, "")
            ELSE IF seenBit(p.seen, idx)
            THEN SamplerSyntaxError(i - 1, 0, "dimension referenced twice")
            ELSE IF (p.precede = Chr("!")) /\ (p.currentConstant >= Len(constants))
            THEN SamplerSyntaxError(i - 1, 0, "constant index out of range")
            ELSE
                LET v == idx
                         + (IF p.precede = Chr("-") THEN mask_mirror ELSE 0)
                         + (IF p.precede = Chr("!") THEN mask_const ELSE 0)
                IN  samplerParse(reorder, constants, i + 1,
                        [seen            |-> p.seen + (2 ^ idx),
                         precede         |-> nothing,
                         outputs         |-> [p.outputs EXCEPT ![p.currentOutput + 1] = v],
                         currentOutput   |-> p.currentOutput + 1,
                         currentConstant |-> p.currentConstant
                                             + (IF p.precede = Chr("!") THEN 1 ELSE 0),
                         newDims         |-> p.newDims
                                             + (IF p.precede # Chr("!") THEN 1 ELSE 0)])

\* func Sampler(reorder string, constants ... int) Mapper: the Mapper, or the
\* SamplerSyntaxError it panics with
Sampler(reorder, constants) ==
    samplerParse(reorder, constants, 1,
        [seen |-> 0, precede |-> nothing, outputs |-> [i \in 1..16 |-> nothing],
         currentOutput |-> 0, currentConstant |-> 0, newDims |-> 0])

\* output & mask_const == mask_const, on the uint8 output
isConst(output) == (output \div mask_const) % 2 = 1

\* the Shapes function of the Mapper Sampler returns: the lengths given to New
RECURSIVE samplerLengths(_, _, _, _)
samplerLengths(m, original, i, lengths) ==
    IF i > m.currentOutput THEN lengths
    ELSE IF isConst(m.outputs[i])
    THEN samplerLengths(m, original, i + 1, lengths)
    ELSE samplerLengths(m, original, i + 1,
             Append(lengths, Length(original, m.outputs[i] % (mask_index + 1))))

NoBound == [tag |-> "none", original |-> NoShape, new |-> NoShape, err |-> ""]

\* func (m Mapper) Bind(original D) Map, for the Mapper of Sampler: the
\* shapes of the Map, or the error New panics with
Bind(m, original) ==
    LET new == New(samplerLengths(m, original, 1, <<>>))
    IN  IF new.tag = "D"
        THEN [tag |-> "Map", original |-> original,
              new |-> [impl |-> new.err, lens |-> new.v], err |-> ""]
        ELSE [tag |-> "panic", original |-> original, new |-> NoShape,
              err |-> new.err]

\* output & mask_mirror == mask_mirror, on the uint8 output
isMirror(output) == (output \div mask_mirror) % 2 = 1

\* the loop of the Offsets closure of Sampler over outputs[i] (1-based), with
\* its counters c and s; dest is written in place, and a write past the end
\* of dest is a run-time panic
RECURSIVE samplerOffsetsLoop(_, _, _, _, _, _, _)
samplerOffsetsLoop(m, original, source, i, c, s, dest) ==
    IF i > 16 THEN VecRet(dest)
    ELSE IF m.outputs[i] = nothing THEN VecRet(dest)
    ELSE
        LET output == m.outputs[i]
            idx    == output % (mask_index + 1)
        IN  IF idx >= Len(dest) THEN PanicRet("index out of range")
            ELSE IF isConst(output)
            THEN samplerOffsetsLoop(m, original, source, i + 1, c + 1, s,
                     [dest EXCEPT ![idx + 1] = m.constants[c + 1]])
            ELSE
                LET offset == IF s < Len(source)
                              THEN GoMod(source[s + 1], Length(original, idx))
                              ELSE 0
                    s2     == IF s < Len(source) THEN s + 1 ELSE s
                IN  samplerOffsetsLoop(m, original, source, i + 1, c, s2,
                        [dest EXCEPT ![idx + 1] =
                            IF isMirror(output)
                            THEN Length(original, idx) - offset - 1
                            ELSE offset])

\* the Offsets closure of Sampler, called through mapping.MapOffsets with a
\* dest of one element per axis of the original shape
samplerMapOffsets(m, original, source) ==
    samplerOffsetsLoop(m, original, source, 1, 0, 0,
                       [i \in 1..Dimensionality(original) |-> 0])

\* every byte the parser knows, and one it does not ("g" is 103)
FullAlphabet ==
    {Chr("\t"), Chr("\n"), Chr(" "), Chr("!"), Chr("-"), 103}
    \cup (Chr("0")..Chr("9")) \cup (Chr("a")..Chr("f")) \cup (Chr("A")..Chr("F"))
    \cup {Chr("x"), Chr("y"), Chr("z"), Chr("w")}
    \cup {Chr("X"), Chr("Y"), Chr("Z"), Chr("W")}

SmallAlphabet ==
    {Chr(" "), Chr("!"), Chr("-"), Chr("0"), Chr("x"), Chr("y"), 103}

SpecInputs ==
    UNION {TuplesOver(FullAlphabet, n) : n \in 0..2}
    \cup UNION {TuplesOver(SmallAlphabet, n) : n \in 0..MaxSpecLen}

ConstantInputs == UNION {TuplesOver({0, 1}, n) : n \in 0..MaxConsts}

\* the shapes a Mapper is bound to: one with 16 axes of lengths 2 to 17, and
\* the shapes of the tests
BindTargets ==
    {[impl |-> "dN", lens |-> [i \in 1..16 |-> i + 1]],
     [impl |-> "D3", lens |-> <<2, 3, 4>>],
     [impl |-> "D3", lens |-> <<4, 3, 2>>],
     [impl |-> "D2", lens |-> <<2, -3>>]}

\* the new offsets MapOffsets is called with, one per axis of the new shape:
\* the same offset on every axis, from -1 to MaxOffset, and 1, 2, 3, ...
SamplerSourceInputs(n) ==
    {[i \in 1..n |-> k] : k \in (-1)..MaxOffset} \cup {[i \in 1..n |-> i]}

CallSampler ==
    /\ smapper = NoMapper
    /\ \E reorder \in SpecInputs :
        \E constants \in ConstantInputs :
            /\ sin' = [spec |-> reorder, constants |-> constants]
            /\ smapper' = Sampler(reorder, constants)
    /\ UNCHANGED <<sbound, scall, sret, notS>>

CallBind ==
    /\ smapper.tag = "Mapper" /\ sbound = NoBound
    /\ \E original \in BindTargets : sbound' = Bind(smapper, original)
    /\ UNCHANGED <<sin, smapper, scall, sret, notS>>

CallSamplerMapOffsets ==
    /\ sbound.tag = "Map" /\ scall = NoCCall
    /\ \E source \in SamplerSourceInputs(Len(sbound.new.lens)) :
        /\ scall' = [op |-> "MapOffsets", args |-> source]
        /\ sret' = samplerMapOffsets(smapper, sbound.original, source)
    /\ UNCHANGED <<sin, smapper, sbound, notS>>

\* the caller has read dest, or has recovered from the panic
SReturn ==
    /\ scall # NoCCall
    /\ scall' = NoCCall
    /\ sret' = NoRet
    /\ UNCHANGED <<sin, smapper, sbound, notS>>

\* the caller lets go of the Map
SUnbind ==
    /\ sbound # NoBound /\ scall = NoCCall
    /\ sbound' = NoBound
    /\ UNCHANGED <<sin, smapper, scall, sret, notS>>

\* the caller lets go of the Mapper, or has recovered from the panic
SDrop ==
    /\ smapper # NoMapper /\ sbound = NoBound
    /\ smapper' = NoMapper
    /\ sin' = [spec |-> <<>>, constants |-> <<>>]
    /\ UNCHANGED <<sbound, scall, sret, notS>>

SInit ==
    /\ sin = [spec |-> <<>>, constants |-> <<>>]
    /\ smapper = NoMapper
    /\ sbound = NoBound
    /\ scall = NoCCall
    /\ sret = NoRet

----------------------------------------------------------------------------
(* The matrix storages of ds/matrix: Grid, Bool, Bit, Hashmap, Diagonal.    *)
(*                                                                          *)
(* A matrix is [kind, D, values]. values is the slice of a Grid or of a     *)
(* Diagonal, the buckets of a Bit or of a Bool (a uint64 bucket is the set  *)
(* of the positions 0..63 of its set bits), or the entries <<index, value>> *)
(* of the map of a Hashmap. A constructor that panics gives NoMatrix.       *)

\* the largest value stored in a matrix
MaxValue == 2
\* the elements a shared grid's buffer has beyond the size of its shape
Slack == 1

\* the bits of a bucket (uint64)
BucketBits == 64

Values == 0..MaxValue

NoMatrix == [kind |-> "none", D |-> NoShape, values |-> <<>>]

\* a method without results has returned
OkRet == [NoRet EXCEPT !.tag = "ok"]
\* the (int, bool) that Next returns
NextRet(i, ok) == [NoRet EXCEPT !.tag = "next", !.n = i, !.b = ok]
\* a method that stores: the matrix afterwards and what the call did
Stored(m, r) == [m |-> m, ret |-> r]

\* the D that New returns for lengths it accepts
NewD(lens) == [impl |-> New(lens).err, lens |-> lens]

Zeros(n) == [i \in 1..n |-> 0]

(* Grid *)
\* func NewGrid(lengths ... int) M[T]
NewGrid(lens) ==
    IF New(lens).tag = "panic" \/ Size(NewD(lens)) < 0 THEN NoMatrix
    ELSE [kind |-> "Grid", D |-> NewD(lens),
          values |-> Zeros(Size(NewD(lens)))]

\* func NewSharedGrid(lengths []int, values []T) M[T]
NewSharedGrid(lens, values) ==
    IF New(lens).tag = "panic" \/ Len(values) < Size(NewD(lens)) THEN NoMatrix
    ELSE [kind |-> "Grid", D |-> NewD(lens), values |-> values]

\* func (g Grid[T]) Get(idx int) T
GridGet(g, idx) ==
    IF idx < 0 \/ idx >= Len(g.values) THEN PanicRet("index out of range")
    ELSE IntRet(g.values[idx + 1])

\* func (g Grid[T]) Set(idx int, value T)
GridSet(g, idx, value) ==
    IF idx < 0 \/ idx >= Len(g.values)
    THEN Stored(g, PanicRet("index out of range"))
    ELSE Stored([g EXCEPT !.values[idx + 1] = value], OkRet)

RECURSIVE gridNextLoop(_, _)
gridNextLoop(g, i) ==
    IF i >= Size(g.D) THEN NextRet(0, FALSE)
    ELSE IF g.values[i + 1] # 0 THEN NextRet(i, TRUE)
    ELSE gridNextLoop(g, i + 1)

\* func (g Grid[T]) Next(idx int) (int, bool)
GridNext(g, idx) == gridNextLoop(g, (IF idx < 0 THEN -1 ELSE idx) + 1)

\* func (g Grid[T]) Clear()
GridClear(g) == [g EXCEPT !.values = Zeros(Len(g.values))]

(* Bool and Bit *)
\* numBuckets of NewBool and NewBit
numBuckets(size) ==
    GoDiv(size, BucketBits) + (IF GoMod(size, BucketBits) # 0 THEN 1 ELSE 0)

\* func NewBool(lengths ... int) M[bool]
NewBool(lens) ==
    IF New(lens).tag = "panic" \/ numBuckets(Size(NewD(lens))) < 0 THEN NoMatrix
    ELSE [kind |-> "Bool", D |-> NewD(lens),
          values |-> [i \in 1..numBuckets(Size(NewD(lens))) |-> {}]]

\* func NewBit(lengths ... int) M[int]
NewBit(lens) ==
    IF New(lens).tag = "panic" \/ numBuckets(Size(NewD(lens))) < 0 THEN NoMatrix
    ELSE [kind |-> "Bit", D |-> NewD(lens),
          values |-> [i \in 1..numBuckets(Size(NewD(lens))) |-> {}]]

\* func bucketIndex(idx int) (int, uint64): the bucket idx >> 6 and the
\* position of the bit of the mask 1 << (idx % 64)
bucketIndex(idx) == [bucket |-> idx \div BucketBits, bit |-> GoMod(idx, BucketBits)]

\* what the bucket access of Get and Set panics with, or "" if it does not:
\* the shift count of the mask is negative, or the bucket does not exist
bucketPanic(b, idx) ==
    IF bucketIndex(idx).bit < 0 THEN "negative shift amount"
    ELSE IF bucketIndex(idx).bucket < 0
            \/ bucketIndex(idx).bucket >= Len(b.values) THEN "index out of range"
    ELSE ""

\* func (b Bool) Get(idx int) bool
BoolGet(b, idx) ==
    IF bucketPanic(b, idx) # "" THEN PanicRet(bucketPanic(b, idx))
    ELSE BoolRet(bucketIndex(idx).bit \in b.values[bucketIndex(idx).bucket + 1])

\* func (b Bool) Set(idx int, value bool)
BoolSet(b, idx, value) ==
    IF bucketPanic(b, idx) # "" THEN Stored(b, PanicRet(bucketPanic(b, idx)))
    ELSE LET bi == bucketIndex(idx)
         IN  Stored([b EXCEPT !.values[bi.bucket + 1] =
                        IF value THEN @ \cup {bi.bit} ELSE @ \ {bi.bit}],
                    OkRet)

\* the loop "Find the next non-zero bucket" of Bool.Next and Bit.Next
RECURSIVE nextBucket(_, _)
nextBucket(buckets, i) ==
    IF i >= Len(buckets) THEN -1
    ELSE IF buckets[i + 1] # {} THEN i
    ELSE nextBucket(buckets, i + 1)

\* the loop "Find the next non-zero bit" of Bool.Next: it reads b.buckets[i]
RECURSIVE boolNextLoop(_, _)
boolNextLoop(b, i) ==
    IF i >= BucketBits THEN NextRet(0, FALSE)
    ELSE IF i >= Len(b.values) THEN PanicRet("index out of range")
    ELSE IF i \in b.values[i + 1] THEN NextRet(i, TRUE)
    ELSE boolNextLoop(b, i + 1)

\* func (b Bool) Next(idx int) (int, bool)
BoolNext(b, idx) ==
    LET j      == (IF idx < 0 THEN -1 ELSE idx) + 1
        start  == GoDiv(j, BucketBits)
        offset == GoMod(j, BucketBits)
        target == nextBucket(b.values, start)
    IN  IF target < 0 THEN NextRet(0, FALSE) ELSE boolNextLoop(b, offset)

\* func (b Bool) Clear()
BoolClear(b) == [b EXCEPT !.values = [i \in 1..Len(b.values) |-> {}]]

\* func (b Bit) Get(idx int) int
BitGet(b, idx) ==
    IF bucketPanic(b, idx) # "" THEN PanicRet(bucketPanic(b, idx))
    ELSE IntRet(IF bucketIndex(idx).bit \in b.values[bucketIndex(idx).bucket + 1]
                THEN 1 ELSE 0)

\* func (b Bit) Set(idx int, value int)
BitSet(b, idx, value) ==
    IF bucketPanic(b, idx) # "" THEN Stored(b, PanicRet(bucketPanic(b, idx)))
    ELSE LET bi == bucketIndex(idx)
         IN  Stored([b EXCEPT !.values[bi.bucket + 1] =
                        IF value > 0 THEN @ \cup {bi.bit} ELSE @ \ {bi.bit}],
                    OkRet)

\* the loop "Find the next non-zero bit" of Bit.Next
RECURSIVE bitNextLoop(_, _, _)
bitNextLoop(b, target, i) ==
    IF i >= BucketBits THEN NextRet(0, FALSE)
    ELSE IF i \in b.values[target + 1] THEN NextRet(i, TRUE)
    ELSE bitNextLoop(b, target, i + 1)

\* func (b Bit) Next(idx int) (int, bool)
BitNext(b, idx) ==
    LET j      == (IF idx < 0 THEN -1 ELSE idx) + 1
        start  == GoDiv(j, BucketBits)
        offset == GoMod(j, BucketBits)
        target == nextBucket(b.values, start)
    IN  IF target < 0 THEN NextRet(0, FALSE) ELSE bitNextLoop(b, target, offset)

\* func (b Bit) Clear()
BitClear(b) == [b EXCEPT !.values = [i \in 1..Len(b.values) |-> {}]]

(* Hashmap *)
\* func NewHashmap(lengths ... int) M[T]
NewHashmap(lens) ==
    IF New(lens).tag = "panic" THEN NoMatrix
    ELSE [kind |-> "Hashmap", D |-> NewD(lens), values |-> {}]

\* m.values[idx] of a Go map: the value and whether the key is there
mapLookup(entries, idx) ==
    IF \E p \in entries : p[1] = idx
    THEN [ok |-> TRUE, value |-> (CHOOSE p \in entries : p[1] = idx)[2]]
    ELSE [ok |-> FALSE, value |-> 0]

\* func (m Hashmap[T]) Get(idx int) T
HashmapGet(m, idx) == IntRet(mapLookup(m.values, idx).value)

\* a bug: a zero value is stored under its key like any other
HashmapSetKeepsZero(m, idx, value) ==
    Stored([m EXCEPT !.values = {p \in @ : p[1] # idx} \cup {<<idx, value>>}],
           OkRet)

\* func (m Hashmap[T]) Set(idx int, value T)
HashmapSet(m, idx, value) ==
    Stored([m EXCEPT !.values =
                {p \in @ : p[1] # idx}
                    \cup (IF value = 0 THEN {} ELSE {<<idx, value>>})],
           OkRet)

RECURSIVE hashmapNextLoop(_, _)
hashmapNextLoop(m, i) ==
    IF i >= Size(m.D) THEN NextRet(0, FALSE)
    ELSE IF mapLookup(m.values, i).ok /\ mapLookup(m.values, i).value # 0
         THEN NextRet(i, TRUE)
    ELSE hashmapNextLoop(m, i + 1)

\* func (m Hashmap[T]) Next(idx int) (int, bool)
HashmapNext(m, idx) == hashmapNextLoop(m, (IF idx < 0 THEN -1 ELSE idx) + 1)

\* func (m Hashmap[T]) Clear()
HashmapClear(m) == [m EXCEPT !.values = {}]

(* Diagonal *)
\* func Pow(x, n T) T of math/integer, by squaring
RECURSIVE powLoop(_, _, _)
powLoop(x, n, y) ==
    IF n > 1
    THEN IF n % 2 = 1 THEN powLoop(x * x, GoDiv(n - 1, 2), x * y)
         ELSE powLoop(x * x, GoDiv(n, 2), y)
    ELSE x * y

Pow(x, n) ==
    IF x = 0 /\ n = 0 THEN 1
    ELSE IF n < 0 THEN 0
    ELSE IF n = 0 THEN 1
    ELSE powLoop(x, n, 1)

\* func (g Geometric[N]) Sum(n int) N of math/series
GeometricSum(coefficient, ratio, n) ==
    IF ratio = 0 THEN (n + 1) * coefficient
    ELSE IF ratio = 1 THEN ratio * coefficient
    ELSE coefficient * GoDiv(1 - Pow(ratio, n + 1), 1 - ratio)

\* func NewDiagonal(dimensionality, length int) M[T]
NewDiagonal(dimensionality, length) ==
    LET lens == [i \in 1..dimensionality |-> length]
    IN  IF New(lens).tag = "panic" \/ length < 0 THEN NoMatrix
        ELSE [kind |-> "Diagonal", D |-> NewD(lens), values |-> Zeros(length)]

\* a bug: the step between diagonal indexes is that of two dimensions
diagonalOffsetPlanarStep(dimensionality, length, idx) ==
    LET n == 1 + length
    IN  IF GoMod(idx, n) # 0 THEN -1 ELSE GoDiv(idx, n)

\* func diagonalOffset(dimensionality int, length int, idx int) int
diagonalOffset(dimensionality, length, idx) ==
    LET n == GeometricSum(1, length, dimensionality - 1)
    IN  IF GoMod(idx, n) # 0 THEN -1 ELSE GoDiv(idx, n)

\* func nextDiagonalIndex(dimensionality int, length int, idx int) int
nextDiagonalIndex(dimensionality, length, idx) ==
    LET n == GeometricSum(1, length, dimensionality - 1)
    IN  (IF GoMod(idx, n) # 0 THEN idx - GoMod(idx, n) ELSE idx) + n

\* func (m Diagonal[T]) Get(idx int) T
DiagonalGet(m, idx) ==
    LET i == diagonalOffset(Dimensionality(m.D), Len(m.values), idx)
    IN  IF i < 0 THEN IntRet(0)
        ELSE IF i > Len(m.values) THEN IntRet(0)
        ELSE IF i >= Len(m.values) THEN PanicRet("index out of range")
        ELSE IntRet(m.values[i + 1])

\* a bug: a value set off the diagonal is stored at offset 0
DiagonalSetOffDiagonalStores(m, idx, value) ==
    LET i == diagonalOffset(Dimensionality(m.D), Len(m.values), idx)
    IN  IF i < 0 \/ i >= Len(m.values)
        THEN Stored([m EXCEPT !.values[1] = value], OkRet)
        ELSE Stored([m EXCEPT !.values[i + 1] = value], OkRet)

\* func (m Diagonal[T]) Set(idx int, value T)
DiagonalSet(m, idx, value) ==
    LET i == diagonalOffset(Dimensionality(m.D), Len(m.values), idx)
    IN  IF i < 0
        THEN IF value = 0 THEN Stored(m, OkRet)
             ELSE Stored(m, PanicRet("can not set a non-zero value off the matrix diagonal"))
        ELSE IF i >= Len(m.values) THEN Stored(m, PanicRet("index out of range"))
        ELSE Stored([m EXCEPT !.values[i + 1] = value], OkRet)

RECURSIVE diagonalNextLoop(_, _)
diagonalNextLoop(m, idx) ==
    LET j == nextDiagonalIndex(Dimensionality(m.D), Len(m.values), idx)
        i == diagonalOffset(Dimensionality(m.D), Len(m.values), j)
    IN  IF j > Size(m.D) THEN NextRet(0, FALSE)
        ELSE IF i < 0 \/ i >= Len(m.values) THEN PanicRet("index out of range")
        ELSE IF m.values[i + 1] # 0 THEN NextRet(j, TRUE)
        ELSE diagonalNextLoop(m, j)

\* func (m Diagonal[T]) Next(idx int) (int, bool)
DiagonalNext(m, idx) == diagonalNextLoop(m, IF idx < 0 THEN -1 ELSE idx)

\* func (m Diagonal[T]) Clear()
DiagonalClear(m) == [m EXCEPT !.values = Zeros(Len(m.values))]

(* The interface M, dispatched on the concrete type. A Bool holds          *)
(* booleans: the callers of the model hand it value # 0, and read its Get  *)
(* as 1 for true and 0 for false.                                          *)
MGet(m, idx) ==
    CASE m.kind = "Grid"     -> GridGet(m, idx)
      [] m.kind = "Bit"      -> BitGet(m, idx)
      [] m.kind = "Bool"     -> BoolGet(m, idx)
      [] m.kind = "Hashmap"  -> HashmapGet(m, idx)
      [] m.kind = "Diagonal" -> DiagonalGet(m, idx)

MSet(m, idx, value) ==
    CASE m.kind = "Grid"     -> GridSet(m, idx, value)
      [] m.kind = "Bit"      -> BitSet(m, idx, value)
      [] m.kind = "Bool"     -> BoolSet(m, idx, value # 0)
      [] m.kind = "Hashmap"  -> HashmapSet(m, idx, value)
      [] m.kind = "Diagonal" -> DiagonalSet(m, idx, value)

MNext(m, idx) ==
    CASE m.kind = "Grid"     -> GridNext(m, idx)
      [] m.kind = "Bit"      -> BitNext(m, idx)
      [] m.kind = "Bool"     -> BoolNext(m, idx)
      [] m.kind = "Hashmap"  -> HashmapNext(m, idx)
      [] m.kind = "Diagonal" -> DiagonalNext(m, idx)

MClear(m) ==
    CASE m.kind = "Grid"     -> GridClear(m)
      [] m.kind = "Bit"      -> BitClear(m)
      [] m.kind = "Bool"     -> BoolClear(m)
      [] m.kind = "Hashmap"  -> HashmapClear(m)
      [] m.kind = "Diagonal" -> DiagonalClear(m)

----------------------------------------------------------------------------
(* The storages as a state machine: a caller builds one matrix of every    *)
(* kind for the same lengths (a Diagonal when the lengths are all equal),  *)
(* and makes every call on all of them, so that ms holds what each kind    *)
(* stores after the same calls and mret what each kind answered. Const(m)  *)
(* holds a reference to m and no state of its own: a call through it acts  *)
(* on the same ms.                                                         *)

Stores == {"Grid", "Shared", "Bit", "Bool", "Hashmap", "Diagonal"}

NoStores == [k \in Stores |-> NoMatrix]
NoRets   == [k \in Stores |-> NoRet]

\* the lengths the matrices are built for: one bucket, several buckets,
\* and a negative length that New accepts
StoreShapes == {<<3>>, <<2, 2>>, <<BucketBits + 2>>, <<-3>>}

IsCube(lens) == \A i \in 1..Len(lens) : lens[i] = lens[1]

Matrices(lens) ==
    [k \in Stores |->
        CASE k = "Grid"     -> NewGrid(lens)
          [] k = "Shared"   ->
                NewSharedGrid(lens,
                    Zeros((IF Size(NewD(lens)) < 0 THEN 0
                           ELSE Size(NewD(lens))) + Slack))
          [] k = "Bit"      -> NewBit(lens)
          [] k = "Bool"     -> NewBool(lens)
          [] k = "Hashmap"  -> NewHashmap(lens)
          [] k = "Diagonal" -> IF IsCube(lens)
                               THEN NewDiagonal(Len(lens), lens[1])
                               ELSE NoMatrix]

\* the shape of the matrices held
MD == ms["Hashmap"].D

\* the indexes in [0, Size()) the caller uses: all of a small shape, the
\* ends and the bucket boundary of a large one
PokeIndexes(d) ==
    IF Size(d) <= MaxSize THEN 0..(Size(d) - 1)
    ELSE {0, BucketBits - 1, BucketBits, Size(d) - 1}

\* indexes outside [0, Size())
OutsideIndexes(d) ==
    {i \in {-1, 0, Size(d), Size(d) + 1} : ~(0 <= i /\ i < Size(d))}

\* func Const(m M[T]) M[T]: the methods of constMatrix
ConstGet(m, idx) == MGet(m, idx)
\* a bug: Set goes through to the matrix
ConstSetWrites(m, idx, value) == MSet(m, idx, value)
ConstSet(m, idx, value) == Stored(m, PanicRet("const matrix is read only"))
ConstNext(m, idx) == MNext(m, idx)
ConstClear(m) == Stored(m, PanicRet("const matrix is read only"))

MInit ==
    /\ ms = NoStores
    /\ mcall = NoCCall
    /\ mret = NoRets

\* every matrix that exists makes the call f(m) that stores
StoreAll(f(_)) ==
    /\ ms' = [k \in Stores |-> IF ms[k] = NoMatrix THEN NoMatrix ELSE f(ms[k]).m]
    /\ mret' = [k \in Stores |-> IF ms[k] = NoMatrix THEN NoRet ELSE f(ms[k]).ret]

\* every matrix that exists makes the call f(m) that reads
ReadAll(f(_)) ==
    /\ mret' = [k \in Stores |-> IF ms[k] = NoMatrix THEN NoRet ELSE f(ms[k])]
    /\ UNCHANGED ms

MReady == ms # NoStores /\ mcall = NoCCall

MNew ==
    /\ ms = NoStores /\ mcall = NoCCall
    /\ \E lens \in StoreShapes : ms' = Matrices(lens)
    /\ UNCHANGED <<mcall, mret, notM>>

CallSet ==
    /\ MReady
    /\ \E idx \in PokeIndexes(MD), value \in Values :
        /\ mcall' = [op |-> "Set", args |-> <<idx, value>>]
        /\ LET set(m) == MSet(m, idx, value) IN StoreAll(set)
    /\ UNCHANGED notM

CallGet ==
    /\ MReady
    /\ \E idx \in PokeIndexes(MD) :
        /\ mcall' = [op |-> "Get", args |-> <<idx>>]
        /\ LET get(m) == MGet(m, idx) IN ReadAll(get)
    /\ UNCHANGED notM

CallNext ==
    /\ MReady
    /\ \E idx \in {-1} \cup PokeIndexes(MD) :
        /\ mcall' = [op |-> "Next", args |-> <<idx>>]
        /\ LET next(m) == MNext(m, idx) IN ReadAll(next)
    /\ UNCHANGED notM

CallClear ==
    /\ MReady
    /\ mcall' = [op |-> "Clear", args |-> <<>>]
    /\ LET clr(m) == Stored(MClear(m), OkRet) IN StoreAll(clr)
    /\ UNCHANGED notM

CallConstSet ==
    /\ MReady
    /\ \E idx \in PokeIndexes(MD), value \in Values :
        /\ mcall' = [op |-> "Const.Set", args |-> <<idx, value>>]
        /\ LET set(m) == ConstSet(m, idx, value) IN StoreAll(set)
    /\ UNCHANGED notM

CallConstGet ==
    /\ MReady
    /\ \E idx \in PokeIndexes(MD) :
        /\ mcall' = [op |-> "Const.Get", args |-> <<idx>>]
        /\ LET get(m) == ConstGet(m, idx) IN ReadAll(get)
    /\ UNCHANGED notM

CallConstNext ==
    /\ MReady
    /\ \E idx \in {-1} \cup PokeIndexes(MD) :
        /\ mcall' = [op |-> "Const.Next", args |-> <<idx>>]
        /\ LET next(m) == ConstNext(m, idx) IN ReadAll(next)
    /\ UNCHANGED notM

CallConstClear ==
    /\ MReady
    /\ mcall' = [op |-> "Const.Clear", args |-> <<>>]
    /\ LET clr(m) == ConstClear(m) IN StoreAll(clr)
    /\ UNCHANGED notM

\* Set and Get with an index outside [0, Size())
CallSetOutside ==
    /\ MReady
    /\ \E idx \in OutsideIndexes(MD), value \in Values :
        /\ mcall' = [op |-> "Set", args |-> <<idx, value>>]
        /\ LET set(m) == MSet(m, idx, value) IN StoreAll(set)
    /\ UNCHANGED notM

CallGetOutside ==
    /\ MReady
    /\ \E idx \in OutsideIndexes(MD) :
        /\ mcall' = [op |-> "Get", args |-> <<idx>>]
        /\ LET get(m) == MGet(m, idx) IN ReadAll(get)
    /\ UNCHANGED notM

\* the caller has looked at the results
MReturn ==
    /\ mcall # NoCCall
    /\ mcall' = NoCCall
    /\ mret' = NoRets
    /\ UNCHANGED <<ms, notM>>

\* the caller drops the matrices
MDrop ==
    /\ MReady
    /\ ms' = NoStores
    /\ UNCHANGED <<mcall, mret, notM>>

----------------------------------------------------------------------------
(* Copy: a caller builds a source and a destination (each a Grid or a      *)
(* Hashmap, with storage of its own), sets elements of both, copies, looks *)
(* at the two and drops them.                                              *)

\* the loop of Copy, from source index i on
RECURSIVE copyLoop(_, _, _)
copyLoop(dest, src, i) ==
    IF i >= Size(src.D) THEN [dest |-> dest, src |-> src, ret |-> OkRet]
    ELSE LET offsets == Offsets(src.D, i)
         IN  IF Contains(dest.D, offsets)
             THEN IF MGet(src, i).tag = "panic"
                  THEN [dest |-> dest, src |-> src, ret |-> MGet(src, i)]
                  ELSE LET set == MSet(dest, Index(dest.D, offsets), MGet(src, i).n)
                       IN  IF set.ret.tag = "panic"
                           THEN [dest |-> set.m, src |-> src, ret |-> set.ret]
                           ELSE copyLoop(set.m, src, i + 1)
             ELSE copyLoop(dest, src, i + 1)

\* a bug: dest is not cleared first
CopyNoClear(dest, src) == copyLoop(dest, src, 0)

\* func Copy(dest, src M[T])
Copy(dest, src) == copyLoop(MClear(dest), src, 0)

\* the lengths the two matrices are built for
CopyShapes == {<<2>>, <<3>>, <<2, 2>>, <<1, 2>>, <<-3>>}

CopyKinds == {"Grid", "Hashmap"}

NewMatrix(kind, lens) ==
    IF kind = "Grid" THEN NewGrid(lens) ELSE NewHashmap(lens)

CopyInit ==
    /\ csrc = NoMatrix
    /\ cdest = NoMatrix
    /\ copied = NoRet

\* the two matrices are there and Copy has not been called
CopyReady == csrc # NoMatrix /\ cdest # NoMatrix /\ copied = NoRet

CopyNew ==
    /\ csrc = NoMatrix /\ cdest = NoMatrix
    /\ \E ks \in CopyKinds, kd \in CopyKinds, ls \in CopyShapes, ld \in CopyShapes :
        /\ Len(ls) = Len(ld)
        /\ NewMatrix(ks, ls) # NoMatrix /\ NewMatrix(kd, ld) # NoMatrix
        /\ csrc' = NewMatrix(ks, ls)
        /\ cdest' = NewMatrix(kd, ld)
    /\ UNCHANGED <<copied, notCopy>>

\* src.Set(idx, value)
CopySetSrc ==
    /\ CopyReady
    /\ \E idx \in 0..(Size(csrc.D) - 1), value \in Values :
        csrc' = MSet(csrc, idx, value).m
    /\ UNCHANGED <<cdest, copied, notCopy>>

\* dest.Set(idx, value): what dest holds before the copy
CopySetDest ==
    /\ CopyReady
    /\ \E idx \in 0..(Size(cdest.D) - 1), value \in {0, MaxValue} :
        cdest' = MSet(cdest, idx, value).m
    /\ UNCHANGED <<csrc, copied, notCopy>>

\* Copy(dest, src)
CallCopy ==
    /\ CopyReady
    /\ cdest' = Copy(cdest, csrc).dest
    /\ csrc' = Copy(cdest, csrc).src
    /\ copied' = Copy(cdest, csrc).ret
    /\ UNCHANGED notCopy

\* the caller drops the two matrices
CopyDrop ==
    /\ csrc # NoMatrix
    /\ csrc' = NoMatrix
    /\ cdest' = NoMatrix
    /\ copied' = NoRet
    /\ UNCHANGED notCopy

----------------------------------------------------------------------------
(* View: a view of a parent matrix through a Map, built by Crop or by      *)
(* Sample. The view holds a reference to the parent, so the model keeps    *)
(* the parent apart (vparent) and the view as [kind, D, original, crop,    *)
(* mapper]: its own shape, the parent's shape, and the Map of Crop or the  *)
(* Mapper of Sampler.                                                      *)

NoView == [kind |-> "none", D |-> NoShape, original |-> NoShape,
           crop |-> NoMap, mapper |-> NoMapper]

\* func Crop(parent M[T], startIdx int, lengths ... int) M[T]; NoView if
\* dimensions.Crop panics
ViewCrop(parent, startIdx, lengths) ==
    LET m == Crop(parent.D, startIdx, lengths)
    IN  IF m.ok
        THEN [kind |-> "Crop", D |-> m.new, original |-> parent.D,
              crop |-> m, mapper |-> NoMapper]
        ELSE NoView

\* func Sample(parent M[T], sampler string, constants ... int) M[T]; NoView
\* if Sampler or Bind panics
ViewSample(parent, sampler, constants) ==
    LET m == Sampler(sampler, constants)
    IN  IF m.tag = "Mapper" /\ Bind(m, parent.D).tag = "Map"
        THEN [kind |-> "Sample", D |-> Bind(m, parent.D).new,
              original |-> parent.D, crop |-> NoMap, mapper |-> m]
        ELSE NoView

\* func (m mapping) MapIndex(idx int) int
viewMapIndex(v, idx) ==
    LET source == Offsets(v.D, idx)
        dest   == IF v.kind = "Crop" THEN VecRet(cropMapOffsets(v.crop, source))
                  ELSE samplerMapOffsets(v.mapper, v.original, source)
    IN  IF dest.tag = "panic" THEN dest
        ELSE IntRet(Index(v.original, dest.v))

\* func (v View[T]) Get(idx int) T
ViewGet(parent, v, idx) ==
    IF viewMapIndex(v, idx).tag = "panic" THEN viewMapIndex(v, idx)
    ELSE MGet(parent, viewMapIndex(v, idx).n)

\* func (v View[T]) Set(idx int, value T)
ViewSet(parent, v, idx, value) ==
    IF viewMapIndex(v, idx).tag = "panic"
    THEN Stored(parent, viewMapIndex(v, idx))
    ELSE MSet(parent, viewMapIndex(v, idx).n, value)

RECURSIVE viewNextLoop(_, _, _)
viewNextLoop(parent, v, i) ==
    IF i >= Size(v.D) THEN NextRet(0, FALSE)
    ELSE IF ViewGet(parent, v, i).tag = "panic" THEN ViewGet(parent, v, i)
    ELSE IF ViewGet(parent, v, i).n # 0 THEN NextRet(i, TRUE)
    ELSE viewNextLoop(parent, v, i + 1)

\* func (v View[T]) Next(idx int) (int, bool)
ViewNext(parent, v, idx) ==
    viewNextLoop(parent, v, (IF idx < 0 THEN -1 ELSE idx) + 1)

\* the loop of View.Clear, after the Next that returned idx
RECURSIVE viewClearLoop(_, _, _)
viewClearLoop(parent, v, idx) ==
    LET r == ViewNext(parent, v, idx)
    IN  IF r.tag = "panic" THEN Stored(parent, r)
        ELSE IF ~r.b THEN Stored(parent, OkRet)
        ELSE LET set == ViewSet(parent, v, r.n, 0)
             IN  IF set.ret.tag = "panic" THEN set
                 ELSE viewClearLoop(set.m, v, r.n)

\* a bug: the parent is cleared
ViewClearClearsParent(parent, v) == Stored(MClear(parent), OkRet)

\* func (v View[T]) Clear()
ViewClear(parent, v) == viewClearLoop(parent, v, -1)

\* the lengths the parents are built for
ViewShapes == {<<3>>, <<2, 2>>, <<-3>>}

\* the specs the views are sampled with: "x", "-x", "y", "xy", "yx", "-yx",
\* "x!" and "!y"
ViewSpecs ==
    {<<Chr("x")>>, <<Chr("-"), Chr("x")>>, <<Chr("y")>>,
     <<Chr("x"), Chr("y")>>, <<Chr("y"), Chr("x")>>,
     <<Chr("-"), Chr("y"), Chr("x")>>,
     <<Chr("x"), Chr("!")>>, <<Chr("!"), Chr("y")>>}

VInit ==
    /\ vparent = NoMatrix
    /\ view = NoView
    /\ vcall = NoCCall

VNewParent ==
    /\ vparent = NoMatrix
    /\ \E kind \in CopyKinds, lens \in ViewShapes :
        /\ NewMatrix(kind, lens) # NoMatrix
        /\ vparent' = NewMatrix(kind, lens)
    /\ UNCHANGED <<view, vcall, notV>>

\* parent.Set(idx, value)
VParentSet ==
    /\ vparent # NoMatrix
    /\ \E idx \in 0..(Size(vparent.D) - 1), value \in Values :
        vparent' = MSet(vparent, idx, value).m
    /\ vcall' = NoCCall
    /\ UNCHANGED <<view, notV>>

CallViewCrop ==
    /\ vparent # NoMatrix /\ view = NoView
    /\ \E startIdx \in 0..(Abs(Size(vparent.D)) - 1),
          lengths \in TuplesOver(1..2, Dimensionality(vparent.D)) :
        /\ ViewCrop(vparent, startIdx, lengths) # NoView
        /\ view' = ViewCrop(vparent, startIdx, lengths)
    /\ vcall' = NoCCall
    /\ UNCHANGED <<vparent, notV>>

CallViewSample ==
    /\ vparent # NoMatrix /\ view = NoView
    /\ \E sampler \in ViewSpecs, constants \in {<<>>, <<1>>} :
        /\ ViewSample(vparent, sampler, constants) # NoView
        /\ view' = ViewSample(vparent, sampler, constants)
    /\ vcall' = NoCCall
    /\ UNCHANGED <<vparent, notV>>

\* view.Set(idx, value)
CallViewSet ==
    /\ view # NoView
    /\ \E idx \in 0..(Size(view.D) - 1), value \in Values :
        /\ vparent' = ViewSet(vparent, view, idx, value).m
        /\ vcall' = [op |-> "Set", args |-> <<idx, value>>]
    /\ UNCHANGED <<view, notV>>

\* view.Clear()
CallViewClear ==
    /\ view # NoView
    /\ vparent' = ViewClear(vparent, view).m
    /\ vcall' = [op |-> "Clear", args |-> <<>>]
    /\ UNCHANGED <<view, notV>>

\* the caller drops the view
VDropView ==
    /\ view # NoView
    /\ view' = NoView
    /\ vcall' = NoCCall
    /\ UNCHANGED <<vparent, notV>>

\* the caller drops the parent
VDropParent ==
    /\ vparent # NoMatrix /\ view = NoView
    /\ vparent' = NoMatrix
    /\ UNCHANGED <<view, vcall, notV>>

----------------------------------------------------------------------------
(* The grid of ds/matrix2: a matrix that is resized. g2 is [nil, dims,     *)
(* mem, values]: whether values is nil, the lengths the user sees          *)
(* (grid.dimensions), the lengths of the layout of the backing array       *)
(* (grid.mem), and the backing array, whose capacity is its length (every  *)
(* make([]T, n) of the code gives a slice of length and capacity n).       *)

NoGrid == [nil |-> TRUE, dims |-> <<>>, mem |-> <<>>, values |-> <<>>]

\* func nextLength(x int) int
nextLength(x) ==
    IF x >= 12 THEN x + GoDiv(x, 4)
    ELSE IF x >= 4 THEN x + GoDiv(x, 2)
    ELSE x + x

\* func (m dimensions) Volume() int; slices.Reduce(1, operator.Mul, lengths)
RECURSIVE Volume(_)
Volume(lens) ==
    IF Len(lens) = 0 THEN 1 ELSE lens[1] * Volume(Tail(lens))

\* func (m dimensions) DimensionN(n int) int
DimensionN(lens, n) == IF n < 0 \/ n >= Len(lens) THEN 0 ELSE lens[n + 1]

\* func (m dimensions) indexN(offsets ...int) int, from offset i (1-based) on
RECURSIVE indexNLoop(_, _, _, _, _)
indexNLoop(lens, offsets, i, offset, stride) ==
    IF i > Len(offsets) THEN IntRet(offset)
    ELSE IF i - 1 >= Len(lens) /\ offsets[i] # 0
         THEN PanicRet("index out of bounds")
    ELSE indexNLoop(lens, offsets, i + 1, offset + offsets[i] * stride,
                    stride * DimensionN(lens, i - 1))

indexN(lens, offsets) == indexNLoop(lens, offsets, 1, 0, 1)

\* func (m dimensions) contains(offsets ... int) bool
contains(lens, offsets) ==
    \A i \in 1..Len(offsets) :
        /\ ~(i - 1 >= Len(lens) /\ offsets[i] # 0)
        /\ ~(offsets[i] >= DimensionN(lens, i - 1))

\* the coordinate that the iterator indexes.Forwards(lens...) produces at its
\* call number k + 1: ascending, earlier dimensions less significant
RECURSIVE forwardsAt(_, _)
forwardsAt(lens, k) ==
    IF Len(lens) = 0 THEN <<>>
    ELSE <<k % lens[1]>> \o forwardsAt(Tail(lens), k \div lens[1])

\* func (m grid[T]) GetN(offsets ...int) T
GetN(g, offsets) ==
    LET idx == indexN(g.mem, offsets)
    IN  IF idx.tag = "panic" THEN idx
        ELSE IF idx.n < 0 \/ idx.n >= Len(g.values)
             THEN PanicRet("index out of range")
        ELSE IntRet(g.values[idx.n + 1])

\* func (m *grid[T]) SetN(value T, offsets ...int)
SetN(g, value, offsets) ==
    LET idx == indexN(g.mem, offsets)
    IN  IF idx.tag = "panic" THEN Stored(g, idx)
        ELSE IF idx.n < 0 \/ idx.n >= Len(g.values)
             THEN Stored(g, PanicRet("index out of range"))
        ELSE Stored([g EXCEPT !.values[idx.n + 1] = value], OkRet)

\* func gridMove(source Interface[T], dest []T, destDims dimensions), from the
\* coordinate number k of the iterator on: dest afterwards, or the panic
RECURSIVE gridMoveLoop(_, _, _, _)
gridMoveLoop(source, dest, destDims, k) ==
    IF k >= Volume(source.dims) THEN VecRet(dest)
    ELSE LET indexes == forwardsAt(source.dims, k)
             idx     == indexN(destDims, indexes)
         IN  IF ~contains(destDims, indexes)
             THEN gridMoveLoop(source, dest, destDims, k + 1)
             ELSE IF idx.tag = "panic" THEN idx
             ELSE IF ~(idx.n < Len(dest)) THEN PanicRet("index out of range: dest access")
             ELSE IF GetN(source, indexes).tag = "panic" THEN GetN(source, indexes)
             ELSE gridMoveLoop(source,
                               [dest EXCEPT ![idx.n + 1] = GetN(source, indexes).n],
                               destDims, k + 1)

gridMove(source, dest, destDims) == gridMoveLoop(source, dest, destDims, 0)

\* copy(m.values, buf) after clear(m.values)
copyOver(values, buf) ==
    [i \in 1..Len(values) |-> IF i <= Len(buf) THEN buf[i] ELSE 0]

\* "fits" of setSize: the layout of the backing array holds the lengths
memFits(g, lengths) ==
    /\ Len(g.mem) >= Len(lengths)
    /\ \A i \in 1..Len(lengths) : ~(g.mem[i] < lengths[i])

\* a bug: the backing layout is left alone when the lengths do not fit it
setSizeKeepsMem(g, makeCopy, lengths) ==
    IF g.nil \/ Volume(lengths) > Len(g.values)
    THEN Stored([nil |-> FALSE, dims |-> lengths, mem |-> lengths,
                 values |-> Zeros(Volume(lengths))], OkRet)
    ELSE Stored([g EXCEPT !.dims = lengths], OkRet)

\* a bug: a ResizeN that fits the layout of the backing array changes the
\* lengths only, so that the elements cropped out come back with the next
\* ResizeN
setSizeKeepsCropped(g, makeCopy, lengths) ==
    IF g.nil \/ Volume(lengths) > Len(g.values) \/ ~memFits(g, lengths)
    THEN Stored([nil |-> FALSE, dims |-> lengths, mem |-> lengths,
                 values |-> Zeros(Volume(lengths))], OkRet)
    ELSE Stored([g EXCEPT !.dims = lengths], OkRet)

\* a bug: the backing array is allocated for the lengths wanted, and the
\* layout is the grown one
setSizeShortBuffer(g, makeCopy, lengths) ==
    IF g.nil \/ Volume(lengths) <= Len(g.values)
    THEN Stored([nil |-> FALSE, dims |-> lengths, mem |-> lengths,
                 values |-> Zeros(Volume(lengths))], OkRet)
    ELSE Stored([nil |-> FALSE, dims |-> lengths,
                 mem |-> [i \in 1..Len(lengths) |-> nextLength(lengths[i])],
                 values |-> Zeros(Volume(lengths))], OkRet)

\* func (m *grid[T]) setSize(makeCopy bool, lengths ...int)
setSize(g, makeCopy, lengths) ==
    LET wantedVolume == Volume(lengths)
        memLengths   == [i \in 1..Len(lengths) |-> nextLength(lengths[i])]
        memVolume    == Volume(memLengths)
        fits         == memFits(g, lengths)
    IN  IF g.nil
        THEN Stored([nil |-> FALSE, dims |-> lengths, mem |-> lengths,
                     values |-> Zeros(wantedVolume)], OkRet)
        ELSE IF wantedVolume > Len(g.values)
        THEN LET moved == IF makeCopy THEN gridMove(g, Zeros(memVolume), memLengths)
                          ELSE VecRet(Zeros(memVolume))
             IN  IF moved.tag = "panic" THEN Stored(g, moved)
                 ELSE Stored([nil |-> FALSE, dims |-> lengths,
                              mem |-> memLengths, values |-> moved.v], OkRet)
        ELSE LET newMem == IF fits THEN g.mem ELSE lengths
                 moved  == IF makeCopy
                           THEN gridMove(g, Zeros(IF fits THEN Volume(g.mem)
                                                  ELSE wantedVolume), newMem)
                           ELSE VecRet(Zeros(Len(g.values)))
             IN  IF moved.tag = "panic" THEN Stored(g, moved)
                 ELSE Stored([nil |-> FALSE, dims |-> lengths, mem |-> newMem,
                              values |-> copyOver(g.values, moved.v)], OkRet)

\* func (m *grid[T]) ResizeN(lengths ...int)
ResizeN(g, lengths) == setSize(g, TRUE, lengths)

\* func (m *grid[T]) SetSizeN(lengths ...int)
SetSizeN(g, lengths) == setSize(g, FALSE, lengths)

\* a bug: the values are moved to the compact layout, and the layout of the
\* backing array is not updated
CompactKeepsMem(g) ==
    IF g.nil \/ g.dims = g.mem THEN Stored(g, OkRet)
    ELSE Stored([g EXCEPT !.values = gridMove(g, Zeros(Volume(g.dims)), g.dims).v],
                OkRet)

\* func (m *grid[T]) Compact()
Compact(g) ==
    IF g.nil THEN Stored(g, OkRet)
    ELSE IF Volume(g.dims) = 0 THEN Stored([g EXCEPT !.nil = TRUE, !.values = <<>>], OkRet)
    ELSE IF g.dims = g.mem THEN Stored(g, OkRet)
    ELSE LET moved == gridMove(g, Zeros(Volume(g.dims)), g.dims)
         IN  IF moved.tag = "panic" THEN Stored(g, moved)
             ELSE Stored([g EXCEPT !.values = moved.v, !.mem = g.dims], OkRet)

\* func (m *grid[T]) Clear()
G2ClearOp(g) ==
    IF g.nil THEN Stored(g, OkRet)
    ELSE Stored([g EXCEPT !.values = Zeros(Len(g.values))], OkRet)

\* the lengths the grid is sized to, each at least 1: from <<1, 1>> a resize
\* to <<1, 2>> allocates the layout <<2, 4>>, which <<1, 5>> does not fit
\* although its volume is within the capacity
GridLengths == {<<1>>, <<2>>, <<1, 1>>, <<1, 2>>, <<1, 5>>}

\* the values that are written: zero, and two that differ
GridValues == {0, 1, MaxValue}

\* the coordinates inside the lengths
Coordinates(lens) == {forwardsAt(lens, k) : k \in 0..(Volume(lens) - 1)}

G2Init ==
    /\ g2 = NoGrid
    /\ g2call = NoCCall
    /\ g2ret = NoRet

\* NewN(NewGrid, lengths...): SetSizeN on the grid NewGrid returns
G2New ==
    /\ g2.nil
    /\ \E lengths \in GridLengths :
        /\ g2' = SetSizeN(g2, lengths).m
        /\ g2ret' = SetSizeN(g2, lengths).ret
        /\ g2call' = [op |-> "NewN", args |-> lengths]
    /\ UNCHANGED notG2

\* m.ResizeN(lengths...)
G2ResizeN ==
    /\ ~g2.nil
    /\ \E lengths \in GridLengths :
        /\ g2' = ResizeN(g2, lengths).m
        /\ g2ret' = ResizeN(g2, lengths).ret
        /\ g2call' = [op |-> "ResizeN", args |-> lengths]
    /\ UNCHANGED notG2

\* m.SetSizeN(lengths...)
G2SetSizeN ==
    /\ ~g2.nil
    /\ \E lengths \in GridLengths :
        /\ g2' = SetSizeN(g2, lengths).m
        /\ g2ret' = SetSizeN(g2, lengths).ret
        /\ g2call' = [op |-> "SetSizeN", args |-> lengths]
    /\ UNCHANGED notG2

\* m.SetN(value, offsets...) at a coordinate inside the matrix
G2SetN ==
    /\ ~g2.nil
    /\ \E offsets \in Coordinates(g2.dims), value \in GridValues :
        /\ g2' = SetN(g2, value, offsets).m
        /\ g2ret' = SetN(g2, value, offsets).ret
        /\ g2call' = [op |-> "SetN", args |-> <<value>> \o offsets]
    /\ UNCHANGED notG2

\* m.Compact()
G2Compact ==
    /\ ~g2.nil
    /\ g2' = Compact(g2).m
    /\ g2ret' = Compact(g2).ret
    /\ g2call' = [op |-> "Compact", args |-> <<>>]
    /\ UNCHANGED notG2

\* m.Clear()
G2Clear ==
    /\ ~g2.nil
    /\ g2' = G2ClearOp(g2).m
    /\ g2ret' = G2ClearOp(g2).ret
    /\ g2call' = [op |-> "Clear", args |-> <<>>]
    /\ UNCHANGED notG2

\* the caller drops the grid
G2Drop ==
    /\ ~g2.nil
    /\ g2' = NoGrid
    /\ g2call' = NoCCall
    /\ g2ret' = NoRet
    /\ UNCHANGED notG2

----------------------------------------------------------------------------
(* Reduce of matrix2 and of matrix *)

NoRM == [pkg |-> "none", g |-> NoGrid]

\* the sum functions the caller passes: addition, subtraction, and one that
\* counts its applications
Sums == {"add", "sub", "count"}
applySum(sum, a, b) ==
    IF sum = "add" THEN a + b ELSE IF sum = "sub" THEN a - b ELSE a + 1

\* func Reduce[T comparable](m Interface[T], identity T, sum func(a, b T) T) T
\* of matrix2, from the coordinate number k of the iterator on
RECURSIVE reduceLoop(_, _, _, _)
reduceLoop(g, total, sum, k) ==
    IF k >= Volume(g.dims) THEN IntRet(total)
    ELSE LET value == GetN(g, forwardsAt(g.dims, k))
         IN  IF value.tag = "panic" THEN value
             ELSE reduceLoop(g, applySum(sum, total, value.n), sum, k + 1)

Reduce(g, identity, sum) == reduceLoop(g, identity, sum, 0)

\* the first four of a sequence, filled up
pad4(seq, fill) == [i \in 1..4 |-> IF i <= Len(seq) THEN seq[i] ELSE fill]

\* matrix.NewN(matrix.NewGrid, lengths...): resize sets the dimensions and
\* the values to Capacity() zeros
matrixNewN(lengths) ==
    IF Len(lengths) = 0 THEN Stored(NoGrid, PanicRet("ErrDimension"))
    ELSE Stored([nil |-> FALSE, dims |-> lengths, mem |-> lengths,
                 values |-> Zeros(Volume(lengths))], OkRet)

\* func (m Grid[T]) index(dimensionality, x, y, z, w int) int, with
\* dimensions.check
matrixIndex(g, offsets) ==
    LET o == pad4(offsets, 0)
        d == pad4(g.dims, 1)
        okDimension == /\ Len(g.dims) = Len(offsets)
                       /\ Len(offsets) >= 1 /\ Len(offsets) <= 4
        okNegative  == \A i \in 1..4 : o[i] >= 0
        okPositive  == \A i \in 1..4 : o[i] < d[i]
    IN  IF ~okDimension THEN PanicRet("ErrDimension")
        ELSE IF ~okNegative /\ ~okPositive THEN PanicRet("ErrIndexOutOfRange")
        ELSE IntRet((o[4] * d[1] * d[2] * d[3]) + (o[3] * d[1] * d[2])
                    + (o[2] * d[1]) + o[1])

\* func (m Grid[T]) Get1D(x int) T, and Get2D to Get4D
matrixGet(g, offsets) ==
    LET idx == matrixIndex(g, offsets)
    IN  IF idx.tag = "panic" THEN idx
        ELSE IF idx.n < 0 \/ idx.n >= Len(g.values)
             THEN PanicRet("index out of range")
        ELSE IntRet(g.values[idx.n + 1])

\* func (m *Grid[T]) Set1D(value T, x int), and Set2D to Set4D
matrixSet(g, value, offsets) ==
    LET idx == matrixIndex(g, offsets)
    IN  IF idx.tag = "panic" THEN Stored(g, idx)
        ELSE IF idx.n < 0 \/ idx.n >= Len(g.values)
             THEN Stored(g, PanicRet("index out of range"))
        ELSE Stored([g EXCEPT !.values[idx.n + 1] = value], OkRet)

\* increment of matrix.Reduce: adds one to the offset i (0-based), carrying
\* over to the next offset; FALSE when the last offset overflows
RECURSIVE increment(_, _, _)
increment(offsets, lengths, i) ==
    IF i >= Len(lengths) THEN [ok |-> FALSE, offsets |-> offsets]
    ELSE IF offsets[i + 1] + 1 >= lengths[i + 1]
         THEN increment([offsets EXCEPT ![i + 1] = 0], lengths, i + 1)
    ELSE [ok |-> TRUE, offsets |-> [offsets EXCEPT ![i + 1] = @ + 1]]

\* the loop of matrix.Reduce: total = sum(total, identity) at each offset;
\* the total when the loop breaks
RECURSIVE matrixReduceLoop(_, _, _, _, _)
matrixReduceLoop(lengths, offsets, total, identity, sum) ==
    LET t   == applySum(sum, total, identity)
        inc == increment(offsets, lengths, 0)
    IN  IF ~inc.ok THEN t
        ELSE matrixReduceLoop(lengths, inc.offsets, t, identity, sum)

\* func Reduce[T any](m Interface[T], identity T, sum func(a, b T) T) T of
\* matrix: lengths[i] = m.DimensionN(i + 1); the loop; return identity
matrixReduce(g, identity, sum) ==
    LET lengths == [i \in 1..Len(g.dims) |-> g.dims[i]]
        total   == matrixReduceLoop(lengths, Zeros(Len(g.dims)), identity,
                                    identity, sum)
    IN  IntRet(identity)

\* the lengths of the matrices that are reduced, and the identity values
ReduceLengths == {<<1>>, <<2>>, <<3>>, <<2, 2>>}
Identities == {0, 1}

RInit ==
    /\ rm = NoRM
    /\ rcall = NoCCall
    /\ rret = NoRet

\* matrix2.NewN(matrix2.NewGrid, lengths...) or matrix.NewN(matrix.NewGrid,
\* lengths...)
RNew ==
    /\ rm = NoRM
    /\ \E pkg \in {"matrix2", "matrix"}, lengths \in ReduceLengths :
        LET r == IF pkg = "matrix2" THEN SetSizeN(NoGrid, lengths)
                 ELSE matrixNewN(lengths)
        IN  /\ rm' = [pkg |-> pkg, g |-> r.m]
            /\ rret' = r.ret
            /\ rcall' = [op |-> "NewN", args |-> lengths]
    /\ UNCHANGED notR

\* m.SetN(value, offsets...) of matrix2, m.Set1D(value, x) or
\* m.Set2D(value, x, y) of matrix, at a coordinate inside the matrix
RSet ==
    /\ rm # NoRM
    /\ \E offsets \in Coordinates(rm.g.dims), value \in Values :
        LET r == IF rm.pkg = "matrix2" THEN SetN(rm.g, value, offsets)
                 ELSE matrixSet(rm.g, value, offsets)
        IN  /\ rm' = [rm EXCEPT !.g = r.m]
            /\ rret' = r.ret
            /\ rcall' = [op |-> "Set", args |-> <<value>> \o offsets]
    /\ UNCHANGED notR

\* Reduce(m, identity, sum) of the package of m
CallReduce ==
    /\ rm # NoRM
    /\ \E identity \in Identities, sum \in Sums :
        /\ rret' = IF rm.pkg = "matrix2" THEN Reduce(rm.g, identity, sum)
                   ELSE matrixReduce(rm.g, identity, sum)
        /\ rcall' = [op |-> "Reduce", args |-> <<identity, sum>>]
    /\ rm' = rm
    /\ UNCHANGED notR

\* the caller drops the matrix
RDrop ==
    /\ rm # NoRM
    /\ rm' = NoRM
    /\ rcall' = NoCCall
    /\ rret' = NoRet
    /\ UNCHANGED notR

----------------------------------------------------------------------------
(* bitseq.Store: a bucket is the set of the offsets of its true bits *)

\* the zero-value Store; tracked tells the version that records a length
ZeroStore(tracked) ==
    [nil |-> FALSE, tracked |-> tracked, length |-> 0, buckets |-> <<>>,
     numTrue |-> 0]
NoStore == [ZeroStore(FALSE) EXCEPT !.nil = TRUE]

\* func fromIndex(index int) (bucket int, offset int)
fromIndex(index) ==
    [bucket |-> GoDiv(index, BucketBits), offset |-> GoMod(index, BucketBits)]

\* bits.TrailingZeros64 and bits.LeadingZeros64 of a bucket
TrailingZeros64(b) ==
    IF b = {} THEN BucketBits ELSE CHOOSE j \in b : \A k \in b : j <= k
LeadingZeros64(b) ==
    IF b = {} THEN BucketBits
    ELSE BucketBits - 1 - (CHOOSE j \in b : \A k \in b : j >= k)

\* func (s *Store) Set(index int, bit bool); slices.Grow gives the buckets
\* asked for and extra more, all zero
StoreSet(s, index, bit, extra) ==
    LET at  == fromIndex(index)
        len == IF s.tracked /\ index >= s.length THEN index + 1 ELSE s.length
        grown == [i \in 1..(at.bucket + 1 + extra) |->
                     IF i <= Len(s.buckets) THEN s.buckets[i] ELSE {}]
        bs1 == IF at.bucket >= Len(s.buckets) THEN grown ELSE s.buckets
        was == at.offset \in bs1[at.bucket + 1]
    IN  IF index < 0 THEN Stored(s, PanicRet("value out of range"))
        ELSE IF at.bucket >= Len(s.buckets) /\ ~bit
             THEN Stored([s EXCEPT !.length = len], OkRet)
        ELSE IF bit
             THEN Stored([s EXCEPT !.length = len,
                                   !.buckets = [bs1 EXCEPT ![at.bucket + 1] =
                                                    @ \cup {at.offset}],
                                   !.numTrue = IF s.tracked \/ was THEN @
                                               ELSE @ + 1], OkRet)
        ELSE Stored([s EXCEPT !.length = len,
                              !.buckets = [bs1 EXCEPT ![at.bucket + 1] =
                                               @ \ {at.offset}],
                              !.numTrue = IF s.tracked \/ ~was THEN @
                                          ELSE @ - 1], OkRet)

\* func (s Store) getFromBucket(bucket, offset int) bool
getFromBucket(s, bucket, offset) ==
    IF bucket < Len(s.buckets) THEN offset \in s.buckets[bucket + 1] ELSE FALSE

\* the inner loop of NextTrue over the offsets j of the bucket i, up to limit
RECURSIVE nextTrueScan(_, _, _, _)
nextTrueScan(s, i, j, limit) ==
    IF ~(j < limit) THEN [found |-> FALSE, ret |-> NextRet(-1, FALSE)]
    ELSE IF s.tracked /\ (i * BucketBits) + j >= s.length
         THEN [found |-> TRUE, ret |-> NextRet(-1, FALSE)]
    ELSE IF getFromBucket(s, i, j)
         THEN [found |-> TRUE, ret |-> NextRet((i * BucketBits) + j, TRUE)]
    ELSE nextTrueScan(s, i, j + 1, limit)

\* the outer loop of NextTrue over the buckets from i on
RECURSIVE nextTrueLoop(_, _, _, _)
nextTrueLoop(s, start, bucket, i) ==
    IF ~(i < Len(s.buckets)) THEN NextRet(-1, FALSE)
    ELSE IF s.buckets[i + 1] = {} THEN nextTrueLoop(s, start, bucket, i + 1)
    ELSE LET b      == s.buckets[i + 1]
             offset == IF i = bucket THEN GoMod(start, BucketBits)
                       ELSE TrailingZeros64(b)
             limit  == IF i = bucket THEN BucketBits - TrailingZeros64(b)
                       ELSE BucketBits - LeadingZeros64(b)
             scan   == nextTrueScan(s, i, offset, limit)
         IN  IF scan.found THEN scan.ret
             ELSE nextTrueLoop(s, start, bucket, i + 1)

\* func (s Store) NextTrue(after int) (int, bool)
NextTrue(s, after) ==
    LET start  == after + 1
        bucket == GoDiv(start, BucketBits)
    IN  nextTrueLoop(s, start, bucket, bucket)

\* the indexes that are set: the first bits, the middle and the end of the
\* first bucket, and the second and third buckets
BitIndexes == {0, 1, 31, 32, BucketBits - 1, BucketBits, BucketBits + 40,
               2 * BucketBits + 2}

BInit ==
    /\ bs = NoStore
    /\ bcall = NoCCall
    /\ bret = NoRet

\* var s bitseq.Store, of either version
BNew ==
    /\ bs.nil
    /\ \E tracked \in BOOLEAN :
        /\ bs' = ZeroStore(tracked)
        /\ bcall' = [op |-> "Store", args |-> <<>>]
        /\ bret' = OkRet
    /\ UNCHANGED notB

\* s.Set(index, bit)
BSet ==
    /\ ~bs.nil
    /\ \E index \in BitIndexes, bit \in BOOLEAN, extra \in 0..Slack :
        /\ bs' = StoreSet(bs, index, bit, extra).m
        /\ bret' = StoreSet(bs, index, bit, extra).ret
        /\ bcall' = [op |-> "Set", args |-> <<index>>]
    /\ UNCHANGED notB

\* s.NextTrue(after), from -1 or from one of the indexes
BNextTrue ==
    /\ ~bs.nil
    /\ \E after \in {-1} \cup BitIndexes :
        /\ bret' = NextTrue(bs, after)
        /\ bcall' = [op |-> "NextTrue", args |-> <<after>>]
    /\ bs' = bs
    /\ UNCHANGED notB

\* the caller drops the store
BDrop ==
    /\ ~bs.nil
    /\ bs' = NoStore
    /\ bcall' = NoCCall
    /\ bret' = NoRet
    /\ UNCHANGED notB

----------------------------------------------------------------------------
(* genarray.Store, in its two versions: with a mask and a limit (masked), and
   without *)

\* func (s Store) NextFalse(after int) int of bitseq: the loop over the
\* buckets from i on, and over the offsets from j on
RECURSIVE nextFalseScan(_, _, _)
nextFalseScan(s, i, j) ==
    IF ~(j < BucketBits) THEN -1
    ELSE IF ~getFromBucket(s, i, j) THEN (i * BucketBits) + j
    ELSE nextFalseScan(s, i, j + 1)

RECURSIVE nextFalseLoop(_, _, _, _)
nextFalseLoop(s, start, bucket, i) ==
    IF ~(i < Len(s.buckets)) THEN start
    ELSE IF s.buckets[i + 1] = 0..(BucketBits - 1)
         THEN nextFalseLoop(s, start, bucket, i + 1)
    ELSE LET offset == IF i = bucket THEN GoMod(start, BucketBits) ELSE 0
             index  == nextFalseScan(s, i, offset)
         IN  IF index >= 0 THEN index
             ELSE nextFalseLoop(s, start, bucket, i + 1)

NextFalse(s, after) ==
    nextFalseLoop(s, after + 1, GoDiv(after + 1, BucketBits),
                  GoDiv(after + 1, BucketBits))

\* the zero-value Store; the slices are held up to their capacity, glen and
\* vlen are their lengths
ZeroGen(masked) ==
    [nil |-> FALSE, masked |-> masked, mask |-> 0, limit |-> 0,
     generations |-> <<>>, glen |-> 0, values |-> <<>>, vlen |-> 0,
     filled |-> ZeroStore(FALSE), active |-> 0, gaps |-> 0]
NoGen == [ZeroGen(FALSE) EXCEPT !.nil = TRUE]

\* x & mask, for the masks 0 and ^0 (written -1)
andMask(x, mask) == IF mask = 0 THEN 0 ELSE x

\* type Key, and what the calls return
Key(index, generation) == <<index, generation>>
KeyRet(k) == [NoRet EXCEPT !.tag = "key", !.v = k]
FoundRet(value, ok) == [NoRet EXCEPT !.tag = "get", !.n = value, !.b = ok]
ErrRet(e) == [NoRet EXCEPT !.tag = "error", !.err = e]

\* func encodeKey(mask uint64, index int, generation uint64) Key; without
\* the mask in the other version
encodeKey(s, index, generation) ==
    IF index < 0 THEN PanicRet("value out of range")
    ELSE IF s.masked
         THEN KeyRet(Key(andMask(index, s.mask), andMask(generation, s.mask)))
    ELSE KeyRet(Key(index, generation))

\* func decodeIndex(mask uint64, key Key) (int, bool)
decodeIndex(s, key) == IF s.masked THEN andMask(key[1], s.mask) ELSE key[1]

\* func decodeGeneration(mask uint64, key Key) uint64; key.generation in the
\* other version
decodeGeneration(s, key) == IF s.masked THEN andMask(key[2], s.mask) ELSE key[2]

\* a slice of capacity cap that keeps the elements of xs
grown(xs, cap) == [i \in 1..cap |-> IF i <= Len(xs) THEN xs[i] ELSE 0]

\* func (s *Store[ValueT]) Grow(n int); slices.Grow gives the capacity asked
\* for and extra more
genGrow(s, n, extra) ==
    LET n1        == n - s.gaps
        capBefore == Len(s.generations)
        capAfter  == IF s.glen + n1 > capBefore THEN s.glen + n1 + extra
                     ELSE capBefore
        capValues == IF s.vlen + n1 > Len(s.values) THEN s.vlen + n1 + extra
                     ELSE Len(s.values)
        s1 == [s EXCEPT !.generations = grown(s.generations, capAfter),
                        !.glen = IF s.masked THEN @ ELSE capAfter,
                        !.values = grown(s.values, capValues),
                        !.vlen = IF s.masked THEN @ ELSE capValues]
    IN  IF n <= s.gaps THEN Stored(s, OkRet)
        ELSE IF s.masked /\ capBefore + n1 > s.limit
             THEN Stored(s, PanicRet("index exceeds limit"))
        ELSE IF capBefore = capAfter THEN Stored(s1, OkRet)
        ELSE Stored([s1 EXCEPT !.filled = StoreSet(@, capAfter - 1, FALSE, 0).m,
                               !.gaps = @ + (capAfter - capBefore)], OkRet)

\* the first branch of Insert: append directly to the end of a full store
insertAppend(s, value, extra) ==
    LET index == IF s.masked THEN s.glen ELSE Len(s.generations)
        g     == genGrow(s, 1, extra)
        s1    == g.m
        s2    == IF s.masked
                 THEN [s1 EXCEPT
                         !.generations =
                             IF s1.glen < Len(@) THEN [@ EXCEPT ![s1.glen + 1] = 1]
                             ELSE Append(@, 1),
                         !.glen = @ + 1]
                 ELSE [s1 EXCEPT !.generations[index + 1] = 1,
                                 !.values[index + 1] = value]
    IN  IF g.ret.tag = "panic" THEN g
        ELSE IF ~s.masked /\ ~(index < s1.glen /\ index < s1.vlen)
             THEN Stored(s1, PanicRet("index out of range"))
        ELSE Stored([s2 EXCEPT !.filled = StoreSet(@, index, TRUE, 0).m,
                               !.gaps = @ - 1, !.active = @ + 1],
                    encodeKey(s, index, 1))

\* the second branch of Insert: reuse a gap
insertReuse(s, value) ==
    LET index == NextFalse(s.filled, -1)
    IN  IF ~(index < s.glen) THEN Stored(s, PanicRet("index out of range"))
        ELSE IF ~(index < s.vlen)
             THEN Stored([s EXCEPT !.generations[index + 1] = @ + 1],
                         PanicRet("index out of range"))
        ELSE Stored([s EXCEPT !.generations[index + 1] = @ + 1,
                              !.values[index + 1] = value,
                              !.filled = StoreSet(@, index, TRUE, 0).m,
                              !.gaps = @ - 1, !.active = @ + 1],
                    encodeKey(s, index, s.generations[index + 1] + 1))

\* func (s *Store[ValueT]) Insert(value ValueT) Key
Insert(s, value, extra) ==
    IF s.gaps = 0 THEN insertAppend(s, value, extra) ELSE insertReuse(s, value)

\* func lookup(s *Store[ValueT], key Key) (index int, ok bool), which is
\* also how Delete and Get of the masked version begin
lookup(s, key) ==
    LET index == decodeIndex(s, key)
    IN  IF ~getFromBucket(s.filled, fromIndex(index).bucket,
                          fromIndex(index).offset)
        THEN FoundRet(-1, FALSE)
        ELSE IF ~(index < s.glen) THEN PanicRet("index out of range")
        ELSE IF decodeGeneration(s, key) = 0
                \/ s.generations[index + 1] # decodeGeneration(s, key)
             THEN FoundRet(-1, FALSE)
        ELSE FoundRet(index, TRUE)

\* func (s *Store[ValueT]) Delete(key Key) error
Delete(s, key) ==
    LET l == lookup(s, key)
    IN  IF l.tag = "panic" THEN Stored(s, l)
        ELSE IF ~l.b THEN Stored(s, ErrRet("not found"))
        ELSE IF ~(l.n < s.vlen) THEN Stored(s, PanicRet("index out of range"))
        ELSE Stored([s EXCEPT !.values[l.n + 1] = 0,
                              !.filled = StoreSet(@, l.n, FALSE, 0).m,
                              !.gaps = @ + 1, !.active = @ - 1], OkRet)

\* func (s *Store[ValueT]) Get(key Key) (ValueT, bool)
Get(s, key) ==
    LET l == lookup(s, key)
    IN  IF l.tag = "panic" THEN l
        ELSE IF ~l.b THEN FoundRet(0, FALSE)
        ELSE IF ~(l.n < s.vlen) THEN PanicRet("index out of range")
        ELSE FoundRet(s.values[l.n + 1], TRUE)

\* func (s *Store[ValueT]) Count() int
Count(s) == s.active

\* the number of Insert calls on one store
MaxInserts == 4

\* the keys the caller holds: those of the values in the store, with the
\* value inserted, and those it has deleted
NoKeys == [live |-> {}, dead |-> {}]
HeldKeys == {kv[1] : kv \in gkeys.live} \cup gkeys.dead
Inserted == Cardinality(gkeys.live) + Cardinality(gkeys.dead)

GInit ==
    /\ ga = NoGen
    /\ gkeys = NoKeys
    /\ gcall = NoCCall
    /\ gret = NoRet

\* var store genarray.Store[int], of either version
GNew ==
    /\ ga.nil
    /\ \E masked \in BOOLEAN :
        /\ ga' = ZeroGen(masked)
        /\ gcall' = [op |-> "Store", args |-> <<>>]
    /\ gret' = OkRet
    /\ gkeys' = NoKeys
    /\ UNCHANGED notG

\* key := store.Insert(value); the caller keeps the key
GInsert ==
    /\ ~ga.nil
    /\ Inserted < MaxInserts
    /\ \E value \in Values \ {0}, extra \in 0..Slack :
        LET r == Insert(ga, value, extra)
        IN  /\ ga' = r.m
            /\ gret' = r.ret
            /\ gcall' = [op |-> "Insert", args |-> <<value>>]
            /\ gkeys' = IF r.ret.tag = "key"
                        THEN [gkeys EXCEPT !.live = @ \cup {<<r.ret.v, value>>}]
                        ELSE gkeys
    /\ UNCHANGED notG

\* store.Delete(key) with a key the caller holds
GDelete ==
    /\ ~ga.nil
    /\ \E key \in HeldKeys :
        LET r == Delete(ga, key)
        IN  /\ ga' = r.m
            /\ gret' = r.ret
            /\ gcall' = [op |-> "Delete", args |-> key]
            /\ gkeys' = IF r.ret = OkRet
                        THEN [live |-> {kv \in gkeys.live : kv[1] # key},
                              dead |-> gkeys.dead \cup {key}]
                        ELSE gkeys
    /\ UNCHANGED notG

\* store.Get(key) with a key the caller holds
GGet ==
    /\ ~ga.nil
    /\ \E key \in HeldKeys :
        /\ gret' = Get(ga, key)
        /\ gcall' = [op |-> "Get", args |-> key]
    /\ ga' = ga
    /\ gkeys' = gkeys
    /\ UNCHANGED notG

\* store.Count()
GCount ==
    /\ ~ga.nil
    /\ gret' = IntRet(Count(ga))
    /\ gcall' = [op |-> "Count", args |-> <<>>]
    /\ ga' = ga
    /\ gkeys' = gkeys
    /\ UNCHANGED notG

\* the caller drops the store and its keys
GDrop ==
    /\ ~ga.nil
    /\ ga' = NoGen
    /\ gkeys' = NoKeys
    /\ gcall' = NoCCall
    /\ gret' = NoRet
    /\ UNCHANGED notG

----------------------------------------------------------------------------
(* Package checked, on integers of IntBits bits *)

\* the width of the integer types of the model
IntBits == 3

\* 2^n
RECURSIVE TwoTo(_)
TwoTo(n) == IF n = 0 THEN 1 ELSE 2 * TwoTo(n - 1)

\* the values of the signed and of the unsigned type
MinOf(signed) == IF signed THEN -TwoTo(IntBits - 1) ELSE 0
MaxOf(signed) == IF signed THEN TwoTo(IntBits - 1) - 1 ELSE TwoTo(IntBits) - 1
Numbers(signed) == MinOf(signed)..MaxOf(signed)

\* the value of the type that the machine keeps of the exact result x
Wrap(signed, x) ==
    LET m == ((x % TwoTo(IntBits)) + TwoTo(IntBits)) % TwoTo(IntBits)
    IN  IF signed /\ m > MaxOf(signed) THEN m - TwoTo(IntBits) ELSE m

\* x / b of the type: the most negative value divided by -1 is itself
WrapDiv(signed, x, b) == Wrap(signed, GoDiv(x, b))

\* what the functions return
CheckedRet(x, ok) == [NoRet EXCEPT !.tag = "checked", !.n = x, !.b = ok]

\* func Add[N Number](min N, max N, a N, b N) (N, bool)
Add(signed, min, max, a, b) ==
    IF (a < min) \/ (a > max) \/ (b < min) \/ (b > max) THEN CheckedRet(0, FALSE)
    ELSE IF (min > max) \/ (max < min) THEN CheckedRet(0, FALSE)
    ELSE IF (b > 0) /\ (a > Wrap(signed, max - b)) THEN CheckedRet(0, FALSE)
    ELSE IF (b < 0) /\ (a < Wrap(signed, min - b)) THEN CheckedRet(0, FALSE)
    ELSE CheckedRet(Wrap(signed, a + b), TRUE)

\* func Sub[N Number](min N, max N, a N, b N) (N, bool)
Sub(signed, min, max, a, b) ==
    IF (a < min) \/ (a > max) \/ (b < min) \/ (b > max) THEN CheckedRet(0, FALSE)
    ELSE IF (min > max) \/ (max < min) THEN CheckedRet(0, FALSE)
    ELSE IF (b < 0) /\ (a > Wrap(signed, max + b)) THEN CheckedRet(0, FALSE)
    ELSE IF (b > 0) /\ (a < Wrap(signed, min + b)) THEN CheckedRet(0, FALSE)
    ELSE CheckedRet(Wrap(signed, a - b), TRUE)

\* func Mul[N Number](min N, max N, a N, b N) (N, bool)
Mul(signed, min, max, a, b) ==
    LET x == Wrap(signed, a * b)
    IN  IF (a < min) \/ (a > max) \/ (b < min) \/ (b > max) THEN CheckedRet(0, FALSE)
        ELSE IF (min > max) \/ (max < min) THEN CheckedRet(0, FALSE)
        ELSE IF (x < min) \/ (x > max) THEN CheckedRet(0, FALSE)
        ELSE IF (x # 0) /\ (a # WrapDiv(signed, x, b)) THEN CheckedRet(0, FALSE)
        ELSE CheckedRet(x, TRUE)

KInit ==
    /\ kcall = NoCCall
    /\ kret = NoRet

\* the limits and the operands of a call: values of one type
CheckedInputs ==
    {<<signed, min, max, a, b>> :
        signed \in BOOLEAN, min \in Numbers(TRUE) \cup Numbers(FALSE),
        max \in Numbers(TRUE) \cup Numbers(FALSE),
        a \in Numbers(TRUE) \cup Numbers(FALSE),
        b \in Numbers(TRUE) \cup Numbers(FALSE)}
        \cap {in \in BOOLEAN \X Int \X Int \X Int \X Int :
                 \A i \in 2..5 : in[i] \in Numbers(in[1])}

\* checked.Add(min, max, a, b), or Limits{min, max}.Add(a, b)
CallAdd ==
    /\ kcall = NoCCall
    /\ \E in \in CheckedInputs :
        /\ kret' = Add(in[1], in[2], in[3], in[4], in[5])
        /\ kcall' = [op |-> "Add", args |-> in]
    /\ UNCHANGED notK

\* checked.Sub(min, max, a, b), or Limits{min, max}.Sub(a, b)
CallSub ==
    /\ kcall = NoCCall
    /\ \E in \in CheckedInputs :
        /\ kret' = Sub(in[1], in[2], in[3], in[4], in[5])
        /\ kcall' = [op |-> "Sub", args |-> in]
    /\ UNCHANGED notK

\* checked.Mul(min, max, a, b), or Limits{min, max}.Mul(a, b)
CallMul ==
    /\ kcall = NoCCall
    /\ \E in \in CheckedInputs :
        /\ kret' = Mul(in[1], in[2], in[3], in[4], in[5])
        /\ kcall' = [op |-> "Mul", args |-> in]
    /\ UNCHANGED notK

\* the caller has looked at the result
KReturn ==
    /\ kcall # NoCCall
    /\ kcall' = NoCCall
    /\ kret' = NoRet
    /\ UNCHANGED notK

----------------------------------------------------------------------------
(* diagonalOffset on its own: called for every flat index of a matrix of  *)
(* equal side lengths                                                      *)

\* the largest dimensionality and side length of the calls
MaxDiagonalDims == 3
MaxSide == 5

\* the lengths of a matrix of dimensionality d and side length s
Cube(d, s) == [i \in 1..d |-> s]

OInit ==
    /\ ocall = NoCCall
    /\ oret = NoRet

\* diagonalOffset(d, s, idx), as Diagonal.Get, Set and Next call it
CallDiagonalOffset ==
    /\ ocall = NoCCall
    /\ \E d \in 1..MaxDiagonalDims, s \in 1..MaxSide :
        \E idx \in 0..(Size(NewD(Cube(d, s))) - 1) :
            /\ oret' = IntRet(diagonalOffset(d, s, idx))
            /\ ocall' = [op |-> "diagonalOffset", args |-> <<d, s, idx>>]
    /\ UNCHANGED notO

\* the caller has looked at the result
OReturn ==
    /\ ocall # NoCCall
    /\ ocall' = NoCCall
    /\ oret' = NoRet
    /\ UNCHANGED notO

----------------------------------------------------------------------------
(* The specifications *)

Init == DInit /\ CInit /\ SInit /\ MInit /\ CopyInit /\ VInit /\ G2Init /\ RInit /\ BInit /\ GInit /\ KInit /\ OInit

Next ==
    \/ CallNew
    \/ CastDN
    \/ CallIndex
    \/ CallOffsets
    \/ CallContains
    \/ CallSize
    \/ CallDimensionality
    \/ Return
    \/ Drop

Spec == Init /\ [][Next]_vars

NextCrop ==
    \/ CallCrop
    \/ CallMapOffsets
    \/ CReturn
    \/ CDrop

SpecCrop == Init /\ [][NextCrop]_vars

NextSampler ==
    \/ CallSampler
    \/ CallBind
    \/ CallSamplerMapOffsets
    \/ SReturn
    \/ SUnbind
    \/ SDrop

SpecSampler == Init /\ [][NextSampler]_vars

\* the storages, called with indexes in [0, Size())
NextMatrix ==
    \/ MNew
    \/ CallSet
    \/ CallGet
    \/ CallNext
    \/ CallClear
    \/ CallConstSet
    \/ CallConstGet
    \/ CallConstNext
    \/ CallConstClear
    \/ MReturn
    \/ MDrop

SpecMatrix == Init /\ [][NextMatrix]_vars

\* the storages, called with indexes outside [0, Size()) as well
NextMatrixAny ==
    \/ MNew
    \/ CallSet
    \/ CallSetOutside
    \/ CallGetOutside
    \/ MReturn
    \/ MDrop

SpecMatrixAny == Init /\ [][NextMatrixAny]_vars

NextCopy ==
    \/ CopyNew
    \/ CopySetSrc
    \/ CopySetDest
    \/ CallCopy
    \/ CopyDrop

SpecCopy == Init /\ [][NextCopy]_vars

NextView ==
    \/ VNewParent
    \/ VParentSet
    \/ CallViewCrop
    \/ CallViewSample
    \/ CallViewSet
    \/ CallViewClear
    \/ VDropView
    \/ VDropParent

SpecView == Init /\ [][NextView]_vars

NextGrid2 ==
    \/ G2New
    \/ G2ResizeN
    \/ G2SetSizeN
    \/ G2SetN
    \/ G2Compact
    \/ G2Clear
    \/ G2Drop

SpecGrid2 == Init /\ [][NextGrid2]_vars

NextReduce ==
    \/ RNew
    \/ RSet
    \/ CallReduce
    \/ RDrop

SpecReduce == Init /\ [][NextReduce]_vars

NextBitseq ==
    \/ BNew
    \/ BSet
    \/ BNextTrue
    \/ BDrop

SpecBitseq == Init /\ [][NextBitseq]_vars

NextGenarray ==
    \/ GNew
    \/ GInsert
    \/ GDelete
    \/ GGet
    \/ GCount
    \/ GDrop

SpecGenarray == Init /\ [][NextGenarray]_vars

NextChecked ==
    \/ CallAdd
    \/ CallSub
    \/ CallMul
    \/ KReturn

SpecChecked == Init /\ [][NextChecked]_vars

NextDiagonalOffset ==
    \/ CallDiagonalOffset
    \/ OReturn

SpecDiagonalOffset == Init /\ [][NextDiagonalOffset]_vars

\* Set, Get and Clear with indexes inside and outside [0, Size())
NextHashmap ==
    \/ MNew
    \/ CallSet
    \/ CallSetOutside
    \/ CallGet
    \/ CallGetOutside
    \/ CallClear
    \/ MReturn
    \/ MDrop

SpecHashmap == Init /\ [][NextHashmap]_vars

----------------------------------------------------------------------------
(* Properties of the dimension codec *)

\* a shape as the package documents it: every length is at least 1
ValidShape(s) == s # NoShape /\ \A i \in 1..Len(s.lens) : s.lens[i] >= 1

\* the implementation New would not pick for these lengths: the generic dN for
\* a D1..D4, and the fixed-size type for a dN of 1 to 4 lengths
OtherImpl(s) ==
    [s EXCEPT !.impl = IF s.impl = "dN"
                       THEN <<"D1", "D2", "D3", "D4">>[Len(s.lens)]
                       ELSE "dN"]

\* what the method call c returns on shape s
Apply(s, c) ==
    CASE c.op = "Index"          -> IntRet(Index(s, c.args))
      [] c.op = "Offsets"        -> VecRet(Offsets(s, c.idx))
      [] c.op = "Contains"       -> BoolRet(Contains(s, c.args))
      [] c.op = "Size"           -> IntRet(Size(s))
      [] c.op = "Dimensionality" -> IntRet(Dimensionality(s))
      [] OTHER                   -> NoRet

Methods == {"Index", "Offsets", "Contains", "Size", "Dimensionality"}

\* C1: on a shape of 1 to 5 dimensions with all lengths >= 1, the offsets that
\* Offsets returns for an index in [0, Size()) give that index back through
\* Index, and the index that Index returns for a coordinate vector Contains
\* accepts (one offset per axis) gives that vector back through Offsets.
C1_IndexOffsetsRoundTrip ==
    ValidShape(shape) =>
        /\ (call.op = "Offsets" /\ call.idx \in 0..(Size(shape) - 1))
              => Index(shape, ret.v) = call.idx
        /\ (call.op = "Index" /\ Contains(shape, call.args))
              => Offsets(shape, ret.n) = call.args

\* C1 witness: the generic 5-dimensional shape has decoded its last index
C1_Witness ==
    /\ shape.impl = "dN" /\ Len(shape.lens) = 5 /\ ValidShape(shape)
    /\ Size(shape) >= 4
    /\ call.op = "Offsets" /\ call.idx = Size(shape) - 1
    /\ ret.v = [i \in 1..5 |-> shape.lens[i] - 1]

\* C2: for every shape and every vector c of non-negative offsets, one per
\* axis, in range or not, Offsets(Index(c)) is c[i] mod Length(i) on every
\* axis i (mod read as the remainder Go's % computes, which is the modulo
\* for a length >= 1); Contains accepts it, and it differs from c when
\* Contains rejects c.
C2_OffsetsOfIndexWraps ==
    (/\ call.op = "Index"
     /\ \A i \in 1..Len(call.args) : call.args[i] >= 0)
    => LET w == Offsets(shape, ret.n)
       IN  /\ Len(w) = Len(shape.lens)
           /\ \A i \in 1..Len(w) : w[i] = GoMod(call.args[i], shape.lens[i])
           /\ Contains(shape, w)
           /\ ~Contains(shape, call.args) => w # call.args

\* C2 on the shapes whose lengths are all >= 1
C2_OnPositiveLengths ==
    (/\ ValidShape(shape)
     /\ call.op = "Index"
     /\ \A i \in 1..Len(call.args) : call.args[i] >= 0)
    => LET w == Offsets(shape, ret.n)
       IN  /\ Len(w) = Len(shape.lens)
           /\ \A i \in 1..Len(w) : w[i] = call.args[i] % shape.lens[i]
           /\ Contains(shape, w)
           /\ ~Contains(shape, call.args) => w # call.args

\* C3: Index returns a flat index in [0, Size()) for every vector of integer
\* offsets, one per axis, negative offsets included.
C3_IndexInRange ==
    (ValidShape(shape) /\ call.op = "Index")
        => ret.n \in 0..(Size(shape) - 1)

\* C4: for 1 to 4 lengths (all >= 1), every call of Size, Dimensionality,
\* Index, Offsets and Contains returns the same from the fixed-size
\* implementation as from the generic one built from the same lengths.
C4_FixedEqualsGeneric ==
    (/\ ValidShape(shape)
     /\ Len(shape.lens) <= FixedDims
     /\ call.op \in Methods)
    => /\ ret = Apply(shape, call)
       /\ ret = Apply(OtherImpl(shape), call)

\* C4 witness: a D4 has decoded an index with a non-zero offset on each of
\* its last two axes
C4_Witness ==
    /\ shape.impl = "D4" /\ ValidShape(shape)
    /\ call.op = "Offsets"
    /\ ret.v[3] >= 1 /\ ret.v[4] >= 1

\* C5: Contains is true exactly when every offset below the dimensionality is
\* in [0, Length(axis)) and every offset at or past the dimensionality is
\* zero; with one offset more than axes, it is Contains of the first offsets
\* when the extra one is zero and false otherwise.
C5_ContainsExactly ==
    call.op = "Contains" =>
        LET d == Len(shape.lens)
            c == call.args
        IN  /\ ret.b = \A i \in 1..Len(c) :
                          IF i <= d THEN 0 <= c[i] /\ c[i] < shape.lens[i]
                                    ELSE c[i] = 0
            /\ Len(c) = d + 1 =>
                  ret.b = (c[d + 1] = 0 /\ Contains(shape, SubSeq(c, 1, d)))

\* C5 witness: a 2-dimensional shape was asked for three offsets, the third
\* zero, and contains them
C5_Witness ==
    /\ call.op = "Contains" /\ Len(shape.lens) = 2 /\ Len(call.args) = 3
    /\ call.args[1] = 1 /\ call.args[2] = 2 /\ call.args[3] = 0
    /\ ret.b

\* C6: every D returned by New has between 1 and 64 axes and every length
\* >= 1: New panics, and returns no shape, when it is given no lengths, more
\* than 64 lengths, or a length less than 1.
C6_NewRejectsBadSizes ==
    call.op = "New" =>
        LET good == /\ Len(call.args) \in 1..LimitDims
                    /\ \A i \in 1..Len(call.args) : call.args[i] >= 1
        IN  /\ ret.tag = "D" => (good /\ shape.lens = call.args)
            /\ ~good => (ret.tag = "panic" /\ shape = NoShape)

----------------------------------------------------------------------------
(* Properties of Crop *)

Min(a, b) == IF a <= b THEN a ELSE b

\* the crop of the tests: a 9x9 shape cropped at (2, 3) with lengths (4, 5)
CropCenter ==
    LET in == [impl |-> "D2", lens |-> <<9, 9>>]
    IN  Crop(in, Index(in, <<2, 3>>), <<4, 5>>)

\* C7 as stated, on a target with all lengths >= 1 and a start index >= 0:
\* the new length on axis i is min(lengths[i], target.Length(i) - start[i])
\* and MapOffsets sends non-negative new offsets o to
\* (start[i] + o[i]) mod target.Length(i).
C7_CropAddsStart ==
    (/\ ccall.op = "MapOffsets"
     /\ ValidShape(cmap.target) /\ cmap.startIdx >= 0)
    => \A i \in 1..Len(cmap.target.lens) :
            /\ cmap.new.lens[i] =
                  Min(cmap.asked[i], cmap.target.lens[i] - cmap.start[i])
            /\ cret[i] = (cmap.start[i] + ccall.args[i]) % cmap.target.lens[i]

\* C7 amended: Crop returns a Map for every target, start index and positive
\* lengths; the new length on axis i is min(lengths[i], target.Length(i) -
\* start[i]) and MapOffsets sends non-negative new offsets o to
\* (start[i] + (o[i] mod newLength(i))) mod target.Length(i), mod being the
\* remainder Go's % computes: the modulo when the target's lengths are >= 1
\* and the start index is >= 0.
C7_CropWrapsOnNewShape ==
    /\ ccall.op \in {"Crop", "MapOffsets"} =>
        /\ cmap.ok
        /\ cmap.start = Offsets(cmap.target, cmap.startIdx)
        /\ Len(cmap.new.lens) = Len(cmap.target.lens)
        /\ \A i \in 1..Len(cmap.target.lens) :
              cmap.new.lens[i] =
                  Min(cmap.asked[i], cmap.target.lens[i] - cmap.start[i])
    /\ ccall.op = "MapOffsets" =>
        /\ Len(cret) = Len(cmap.target.lens)
        /\ \A i \in 1..Len(cmap.target.lens) :
            /\ cret[i] = GoMod(cmap.start[i]
                                   + GoMod(ccall.args[i], cmap.new.lens[i]),
                               cmap.target.lens[i])
            /\ (ValidShape(cmap.target) /\ cmap.startIdx >= 0) =>
                  cret[i] = (cmap.start[i]
                                + (ccall.args[i] % cmap.new.lens[i]))
                            % cmap.target.lens[i]

\* C7 witness: a crop that was clamped on its second axis has mapped an
\* offset past its new length on that axis
C7_Witness ==
    /\ ccall.op = "MapOffsets" /\ Len(cmap.target.lens) = 2
    /\ ValidShape(cmap.target) /\ cmap.startIdx >= 0
    /\ cmap.start = <<1, 1>>
    /\ cmap.new.lens[2] < cmap.asked[2]
    /\ ccall.args[2] > cmap.new.lens[2]
    /\ ccall.args[1] = 1 /\ cmap.new.lens[1] = 2
    /\ cret = <<2, 1>>

\* C8: MapOffsets of a Crop never leaves the cropped region: for non-negative
\* new offsets, also at or past the new lengths, the result on axis i is in
\* [start[i], start[i] + newLength[i]); the crop of a 9x9 shape at (2, 3) with
\* lengths (4, 5) maps (4, 5) to (2, 3), (5, 6) to (3, 4), (9, 9) to (3, 7).
C8_CropStaysInRegion ==
    /\ ccall.op = "MapOffsets" =>
        \A i \in 1..Len(cmap.target.lens) :
            /\ cmap.start[i] <= cret[i]
            /\ cret[i] < cmap.start[i] + cmap.new.lens[i]
    /\ CropCenter.start = <<2, 3>> /\ CropCenter.new.lens = <<4, 5>>
    /\ cropMapOffsets(CropCenter, <<4, 5>>) = <<2, 3>>
    /\ cropMapOffsets(CropCenter, <<5, 6>>) = <<3, 4>>
    /\ cropMapOffsets(CropCenter, <<9, 9>>) = <<3, 7>>

\* C8 on the targets whose lengths are all >= 1
C8_OnPositiveLengths == ValidShape(cmap.target) => C8_CropStaysInRegion

----------------------------------------------------------------------------
(* Properties of Sampler *)

IsSpace(c)  == c \in {Chr("\t"), Chr("\n"), Chr(" ")}
IsDigit(c)  == c \in Chr("0")..Chr("9")
IsHexLetter(c) == c \in (Chr("a")..Chr("f")) \cup (Chr("A")..Chr("F"))
IsAlias(c)  == c \in {Chr("x"), Chr("y"), Chr("z"), Chr("w"),
                      Chr("X"), Chr("Y"), Chr("Z"), Chr("W")}
IsAxis(c)   == IsDigit(c) \/ IsHexLetter(c) \/ IsAlias(c)

\* the axis a character stands for as documented: '0'..'9' are 0..9, 'a'..'f'
\* and 'A'..'F' are 10..15, and x, y, z, w (either case) are 0, 1, 2, 3
DocAxis(c) ==
    CASE IsDigit(c)                     -> c - Chr("0")
      [] c \in Chr("a")..Chr("f")       -> 10 + (c - Chr("a"))
      [] c \in Chr("A")..Chr("F")       -> 10 + (c - Chr("A"))
      [] c \in {Chr("x"), Chr("X")}     -> 0
      [] c \in {Chr("y"), Chr("Y")}     -> 1
      [] c \in {Chr("z"), Chr("Z")}     -> 2
      [] c \in {Chr("w"), Chr("W")}     -> 3

\* the positions of the axis characters of a string
AxisPositions(str) == {i \in 1..Len(str) : IsAxis(str[i])}

\* the last character before position i that is not whitespace, 0 if none
RECURSIVE Prefix(_, _)
Prefix(str, i) ==
    IF i <= 1 THEN 0
    ELSE IF IsSpace(str[i - 1]) THEN Prefix(str, i - 1)
    ELSE str[i - 1]

ConstPositions(str) == {i \in AxisPositions(str) : Prefix(str, i) = Chr("!")}

NoNonConstantAxis(str) == AxisPositions(str) = ConstPositions(str)

AxisTwice(str) ==
    \E i, j \in AxisPositions(str) : i < j /\ DocAxis(str[i]) = DocAxis(str[j])

UnknownCharacter(str) ==
    \E i \in 1..Len(str) :
        ~(IsSpace(str[i]) \/ str[i] = Chr("-") \/ str[i] = Chr("!") \/ IsAxis(str[i]))

NoConstantRemains(str, constants) ==
    Cardinality(ConstPositions(str)) > Len(constants)

\* C9: Sampler fails with a SamplerSyntaxError, and returns no Mapper, for a
\* spec with no non-constant axis (the empty string and the all-'!' spec
\* included), a spec that names the same axis twice, a character that is not
\* whitespace, '-', '!', a digit, a-f/A-F or x/y/z/w, and a '!'-prefixed axis
\* for which no constant remains.
C9_SamplerSyntaxErrors ==
    (/\ smapper # NoMapper
     /\ \/ NoNonConstantAxis(sin.spec)
        \/ AxisTwice(sin.spec)
        \/ UnknownCharacter(sin.spec)
        \/ NoConstantRemains(sin.spec, sin.constants))
    => (smapper.tag = "SamplerSyntaxError" /\ sbound = NoBound)

\* C9 witness: "!x" with one constant has a constant for its axis but no
\* non-constant axis, and was refused for that
C9_Witness ==
    /\ sin.spec = <<Chr("!"), Chr("x")>> /\ Len(sin.constants) = 1
    /\ smapper.tag = "SamplerSyntaxError"
    /\ smapper.Reason = "must have at least one non-constant output"

\* C10: a one-character spec selects, on a parent of 16 axes, the axis its
\* character stands for: '0'..'9' axes 0..9, 'a'/'A'..'f'/'F' axes 10..15, and
\* x, y, z, w the axes of 0, 1, 2, 3.
C10_AxisCharacters ==
    (/\ sbound # NoBound
     /\ Len(sbound.original.lens) = 16
     /\ Len(sin.spec) = 1)
    => /\ sbound.tag = "Map"
       /\ sbound.new.lens = <<sbound.original.lens[DocAxis(sin.spec[1]) + 1]>>

\* the axis tokens of a spec, in order: the axis each stands for as documented
\* and the prefix before it
RECURSIVE TokensFrom(_, _)
TokensFrom(str, i) ==
    IF i > Len(str) THEN <<>>
    ELSE IF IsAxis(str[i])
    THEN <<[axis |-> DocAxis(str[i]), pre |-> Prefix(str, i)]>>
         \o TokensFrom(str, i + 1)
    ELSE TokensFrom(str, i + 1)

IsConstToken(t) == t.pre = Chr("!")
IsPlainToken(t) == t.pre # Chr("!")

\* the strings "zyx" and the parent (4, 3, 2) of the tests
SpecZYX == <<Chr("z"), Chr("y"), Chr("x")>>
Parent432 == [impl |-> "D3", lens |-> <<4, 3, 2>>]

\* C11: for a valid spec bound to a parent that has every axis the spec
\* names, the j-th non-constant token defines output axis j: the new length
\* on axis j is the parent's length on the token's axis, and MapOffsets
\* writes to that parent axis the new offset j mod the parent length (mod
\* read as the remainder Go's % computes), or parentLength - that - 1 if the
\* token is mirrored; each '!' token writes the next constant to its parent
\* axis and every parent axis absent from the spec receives 0; on parent
\* (4, 3, 2), "zyx" gives shape (2, 3, 4) and maps (1, 2, 3) to (3, 2, 1).
C11_SamplerMaps ==
    LET toks   == TokensFrom(sin.spec, 1)
        plain  == SelectSeq(toks, IsPlainToken)
        consts == SelectSeq(toks, IsConstToken)
        par    == sbound.original
        d      == Len(par.lens)
    IN  /\ (sbound.tag = "Map" /\ \A n \in 1..Len(toks) : toks[n].axis < d) =>
            /\ Len(sbound.new.lens) = Len(plain)
            /\ \A j \in 1..Len(plain) :
                  sbound.new.lens[j] = par.lens[plain[j].axis + 1]
            /\ scall.op = "MapOffsets" =>
                /\ sret.tag = "vec" /\ Len(sret.v) = d
                /\ \A j \in 1..Len(plain) :
                      LET len == par.lens[plain[j].axis + 1]
                          off == GoMod(scall.args[j], len)
                      IN  sret.v[plain[j].axis + 1] =
                              IF plain[j].pre = Chr("-") THEN len - off - 1
                              ELSE off
                /\ \A k \in 1..Len(consts) :
                      sret.v[consts[k].axis + 1] = sin.constants[k]
                /\ \A a \in 0..(d - 1) :
                      (\A n \in 1..Len(toks) : toks[n].axis # a)
                          => sret.v[a + 1] = 0
        /\ Bind(Sampler(SpecZYX, <<>>), Parent432).new.lens = <<2, 3, 4>>
        /\ samplerMapOffsets(Sampler(SpecZYX, <<>>), Parent432, <<1, 2, 3>>).v
              = <<3, 2, 1>>

\* C11 on the specs without hexadecimal letters
C11_WithoutHexLetters ==
    (\A i \in 1..Len(sin.spec) : ~IsHexLetter(sin.spec[i])) => C11_SamplerMaps

----------------------------------------------------------------------------
(* Properties of the matrix storages *)

\* the indexes that calling Next again and again from -1 returns, until it
\* returns false; followed by -1 if a call panics, and by -2 after an index
\* that is not beyond the one Next was called with (the calls that follow
\* are not looked at)
RECURSIVE walkFrom(_, _)
walkFrom(m, idx) ==
    LET r == MNext(m, idx)
    IN  IF r.tag = "panic" THEN <<-1>>
        ELSE IF ~r.b THEN <<>>
        ELSE IF r.n <= idx THEN <<r.n, -2>>
        ELSE <<r.n>> \o walkFrom(m, r.n)

Walk(m) == walkFrom(m, -1)

\* the indexes of [0, Size()) in ascending order that satisfy P
RECURSIVE ascending(_, _, _)
ascending(P(_), i, size) ==
    IF i >= size THEN <<>>
    ELSE (IF P(i) THEN <<i>> ELSE <<>>) \o ascending(P, i + 1, size)

\* the index is on the diagonal: its offsets are all the same
OnDiagonal(d, idx) ==
    \A i \in 1..Dimensionality(d) : Offsets(d, idx)[i] = Offsets(d, idx)[1]

GetAgrees(a, b) == \A i \in 0..(Size(MD) - 1) : MGet(a, i) = MGet(b, i)

\* the storages the Grid is compared with: the Hashmap always, the Bit while
\* the values set are 0 and 1, the Diagonal while no non-zero value is set
\* off the diagonal
ComparedWithGrid ==
    {"Hashmap"}
        \cup (IF \A i \in 0..(Size(MD) - 1) : MGet(ms["Grid"], i).n \in {0, 1}
              THEN {"Bit"} ELSE {})
        \cup (IF /\ ms["Diagonal"] # NoMatrix
                 /\ \A i \in 0..(Size(MD) - 1) :
                        OnDiagonal(MD, i) \/ MGet(ms["Grid"], i).n = 0
              THEN {"Diagonal"} ELSE {})

\* C12: after the same Set calls with indexes in [0, Size()), the Grid, the
\* Bit (values 0 and 1), the Hashmap and the Diagonal (no non-zero value set
\* off the diagonal) return the same Get(i) for every i and the same indexes
\* from Next called repeatedly from -1.
C12_StoragesAgree ==
    ms["Grid"] # NoMatrix =>
        \A k \in ComparedWithGrid :
            /\ GetAgrees(ms["Grid"], ms[k])
            /\ Walk(ms["Grid"]) = Walk(ms[k])

\* the part of C12 about Get
C12_GetAgrees ==
    ms["Grid"] # NoMatrix =>
        \A k \in ComparedWithGrid : GetAgrees(ms["Grid"], ms[k])

\* the part of C12 about Next, for the Grid and the Hashmap
C12_GridHashmapNextAgree ==
    ms["Grid"] # NoMatrix => Walk(ms["Grid"]) = Walk(ms["Hashmap"])

\* the indexes of [0, Size()) whose bit is set, in ascending order
SetBits(m) ==
    LET isSet(i) == MGet(m, i) \in {IntRet(1), BoolRet(TRUE)}
    IN  ascending(isSet, 0, Size(m.D))

\* C13: on a Bit or a Bool of any shape, of more than 64 elements as well,
\* Next called repeatedly from -1 returns exactly the indexes whose bit is
\* set, each once and in ascending order, and then false.
C13_BitBoolNext ==
    \A k \in {"Bit", "Bool"} :
        ms[k] # NoMatrix => Walk(ms[k]) = SetBits(ms[k])

\* C13 for the Bit matrices of one bucket
C13_BitOneBucket ==
    (ms["Bit"] # NoMatrix /\ Size(MD) <= BucketBits)
        => Walk(ms["Bit"]) = SetBits(ms["Bit"])

\* C13 for the Bit matrices
C13_BitNext ==
    ms["Bit"] # NoMatrix => Walk(ms["Bit"]) = SetBits(ms["Bit"])

\* Get of the Diagonal returns zero at every index off the diagonal
OffDiagonalReadsZero ==
    ms["Diagonal"] # NoMatrix =>
        \A i \in 0..(Size(MD) - 1) :
            ~OnDiagonal(MD, i) => MGet(ms["Diagonal"], i) = IntRet(0)

\* a Set off the diagonal panics exactly when the value is not zero, and
\* leaves the Diagonal as it was
OffDiagonalSet ==
    (/\ mcall = NoCCall /\ mcall'.op = "Set"
     /\ ms["Diagonal"] # NoMatrix
     /\ ~OnDiagonal(MD, mcall'.args[1]))
        => /\ ms'["Diagonal"] = ms["Diagonal"]
           /\ mret'["Diagonal"].tag =
                  IF mcall'.args[2] # 0 THEN "panic" ELSE "ok"

\* C14: on a Diagonal, Set(idx, v) at an index of [0, Size()) that is not on
\* the diagonal panics when v is not zero and returns without effect when v
\* is zero; either way the stored values stay as they were, and Get at an
\* index off the diagonal returns zero.
C14_DiagonalOffDiagonal == []OffDiagonalReadsZero /\ [][OffDiagonalSet]_vars

\* a non-zero value has been refused off the diagonal of a Diagonal that
\* holds non-zero values
C14_Witness ==
    /\ mcall.op = "Set" /\ mcall.args[2] # 0
    /\ ms["Diagonal"] # NoMatrix
    /\ ~OnDiagonal(MD, mcall.args[1])
    /\ mret["Diagonal"].tag = "panic"
    /\ ms["Diagonal"].values = <<1, 2>>

\* Set and Clear of Const(m) panic on every matrix and leave it as it was
ConstRefuses ==
    (mcall = NoCCall /\ mcall'.op \in {"Const.Set", "Const.Clear"})
        => /\ ms' = ms
           /\ \A k \in Stores :
                 ms[k] # NoMatrix
                    => mret'[k] = PanicRet("const matrix is read only")

\* Get and Next of Const(m) have returned what m.Get and m.Next return now
ConstReads ==
    /\ mcall.op = "Const.Get" =>
            \A k \in Stores :
                ms[k] # NoMatrix => mret[k] = MGet(ms[k], mcall.args[1])
    /\ mcall.op = "Const.Next" =>
            \A k \in Stores :
                ms[k] # NoMatrix => mret[k] = MNext(ms[k], mcall.args[1])

\* C17: Set and Clear of Const(m) always panic and leave every element of m
\* unchanged; Get and Next of Const(m) return what m.Get and m.Next return,
\* also after m has been changed directly.
C17_ConstIsReadOnly == []ConstReads /\ [][ConstRefuses]_vars

\* Const(m).Set has been refused on matrices that hold values set directly
C17_Witness ==
    /\ mcall.op = "Const.Set" /\ mcall.args = <<0, 1>>
    /\ mret["Hashmap"] = PanicRet("const matrix is read only")
    /\ ms["Grid"] # NoMatrix
    /\ MGet(ms["Grid"], 0) = IntRet(2)
    /\ MGet(ms["Hashmap"], 0) = IntRet(2)

\* a Get or a Set with an index outside [0, Size()) is being made on
\* matrices of lengths >= 1
OutsideCall ==
    /\ mcall = NoCCall /\ mcall'.op \in {"Get", "Set"}
    /\ ValidShape(MD)
    /\ ~(0 <= mcall'.args[1] /\ mcall'.args[1] < Size(MD))

\* the call panics on the matrices K and leaves them as they were
AbortsOn(K) ==
    \A k \in K :
        ms[k] # NoMatrix => mret'[k].tag = "panic" /\ ms'[k] = ms[k]

\* C18: Get(idx) and Set(idx, value) with idx outside [0, Size()) abort on
\* every storage (Grid, Grid over a longer shared buffer, Bit, Bool, Hashmap,
\* Diagonal) and leave every stored element as it was.
C18_OutOfRangeAborts == [][OutsideCall => AbortsOn(Stores)]_vars

\* C18 for the Grid that NewGrid allocates
C18_OnGrid == [][OutsideCall => AbortsOn({"Grid"})]_vars

----------------------------------------------------------------------------
(* Properties of Copy and of the views *)

\* the coordinates inside the shape d
Inside(d) == {Offsets(d, i) : i \in 0..(Size(d) - 1)}

\* the spec's example: a 4x4 Grid, rows (0,0,1,0), (2,3,4,5), (6,0,0,0),
\* (0,0,0,1)
Example4x4 ==
    NewSharedGrid(<<4, 4>>, <<0, 0, 1, 0, 2, 3, 4, 5, 6, 0, 0, 0, 0, 0, 0, 1>>)

\* dest holds at every coordinate inside its shape what src holds there, and
\* zero where src has no such coordinate
CopyOf(dest, src) ==
    \A o \in Inside(dest.D) :
        MGet(dest, Index(dest.D, o)) =
            IF Contains(src.D, o) THEN MGet(src, Index(src.D, o)) ELSE IntRet(0)

\* Copy leaves src as it was
CopyKeepsSrc == (copied = NoRet /\ copied' # NoRet) => csrc' = csrc

\* C15: after Copy(dest, src) between two Grid or Hashmap matrices of the
\* same dimensionality and separate storage, dest holds at every coordinate
\* inside its shape the value src holds there, or zero if the coordinate is
\* not inside src's shape, whatever dest held before; src is unchanged; the
\* 4x4 example copied into a 2x2 Grid leaves the rows (0,0), (2,3).
C15_CopyCrops ==
    /\ [](copied # NoRet => (copied = OkRet /\ CopyOf(cdest, csrc)))
    /\ [][CopyKeepsSrc]_vars
    /\ [](Copy(NewGrid(<<2, 2>>), Example4x4).dest.values = <<0, 0, 2, 3>>)

\* a 2x2 Hashmap with four non-zero values has been copied into a 1x2 Grid,
\* which holds the source's values at (0,0) and (0,1)
C15_Witness ==
    /\ copied = OkRet
    /\ csrc.D.lens = <<2, 2>> /\ cdest.D.lens = <<1, 2>>
    /\ csrc.kind = "Hashmap" /\ cdest.kind = "Grid"
    /\ \A i \in 0..3 : MGet(csrc, i).n # 0
    /\ cdest.values = <<MGet(csrc, 0).n, MGet(csrc, 2).n>>

\* the parent indexes that the indexes of the view map to
Mapped(v) == {viewMapIndex(v, i).n : i \in 0..(Size(v.D) - 1)}

\* Clear of the view zeroes the parent elements the view maps to and leaves
\* the others as they were
ViewClearFrame ==
    (view # NoView /\ vcall'.op = "Clear") =>
        /\ ViewClear(vparent, view).ret = OkRet
        /\ \A p \in 0..(Size(vparent.D) - 1) :
              MGet(vparent', p) =
                  IF p \in Mapped(view) THEN IntRet(0) ELSE MGet(vparent, p)
        /\ \A i \in 0..(Size(view.D) - 1) :
              ViewGet(vparent', view, i) = IntRet(0)

\* C16: Clear of a View built by Crop or Sample over a Grid or Hashmap parent
\* sets to zero every parent element that an index of the view maps to, so
\* that Get of the view returns zero at every index, and leaves every other
\* parent element unchanged.
C16_ViewClearFrame == [][ViewClearFrame]_vars

\* a view of part of the parent has been cleared, and the parent still
\* holds non-zero values at the elements outside the view
C16_Witness ==
    /\ vcall.op = "Clear"
    /\ Size(view.D) >= 2 /\ Size(view.D) < Size(vparent.D)
    /\ \A p \in 0..(Size(vparent.D) - 1) :
          p \notin Mapped(view) => MGet(vparent, p).n # 0

----------------------------------------------------------------------------
(* Properties of the grid of matrix2 *)

\* the step is a ResizeN to lengths of the same dimensionality that do not
\* decrease along any axis
GrowingResize ==
    /\ ~g2.nil /\ g2call'.op = "ResizeN"
    /\ Len(g2call'.args) = Len(g2.dims)
    /\ \A i \in 1..Len(g2.dims) : g2call'.args[i] >= g2.dims[i]

\* what a step of the grid does to the values the user sees: NewN gives
\* zeros; a ResizeN that does not decrease keeps every value where it was and
\* gives zeros at the new coordinates; Compact keeps every value; SetN
\* changes the value at its coordinate and no other
KeepsValues ==
    /\ (g2.nil /\ g2call'.op = "NewN") =>
            \A o \in Coordinates(g2'.dims) : GetN(g2', o) = IntRet(0)
    /\ GrowingResize =>
            /\ g2ret' = OkRet
            /\ g2'.dims = g2call'.args
            /\ \A o \in Coordinates(g2'.dims) :
                  GetN(g2', o) = IF o \in Coordinates(g2.dims) THEN GetN(g2, o)
                                 ELSE IntRet(0)
    /\ (~g2.nil /\ g2call'.op = "Compact") =>
            /\ g2ret' = OkRet
            /\ g2'.dims = g2.dims
            /\ \A o \in Coordinates(g2.dims) : GetN(g2', o) = GetN(g2, o)
    /\ (~g2.nil /\ g2call'.op = "SetN") =>
            /\ g2ret' = OkRet
            /\ g2'.dims = g2.dims
            /\ \A o \in Coordinates(g2.dims) :
                  GetN(g2', o) = IF o = Tail(g2call'.args)
                                 THEN IntRet(Head(g2call'.args))
                                 ELSE GetN(g2, o)

\* C19: over ResizeN calls that never decrease a length (same
\* dimensionality), SetN writes and Compact calls, GetN at every coordinate
\* inside the matrix returns the value last written there, or zero if none
\* was: every such step keeps the values where they are, whether it
\* reallocates or rearranges the backing array in place.
C19_ResizeKeepsValues == [][KeepsValues]_vars

\* a ResizeN has rearranged the values in place in a backing array whose
\* layout did not fit the new lengths, and the matrix holds two different
\* non-zero values
C19_Witness ==
    /\ g2call.op = "ResizeN" /\ g2ret = OkRet
    /\ g2.dims = <<1, 5>> /\ g2.mem = <<1, 5>> /\ Len(g2.values) = 8
    /\ GetN(g2, <<0, 0>>) = IntRet(1)
    /\ GetN(g2, <<0, 1>>) = IntRet(MaxValue)

\* the step is a ResizeN or a SetSizeN to lengths whose volume is not above
\* the capacity of the backing array
WithinCapacity ==
    /\ ~g2.nil /\ g2call'.op \in {"ResizeN", "SetSizeN"}
    /\ Volume(g2call'.args) <= Len(g2.values)

\* C20 as stated: a ResizeN or SetSizeN to lengths whose volume is not above
\* the capacity changes only the lengths the user sees; the layout of the
\* backing array (mem) and the backing array and its capacity stay as they
\* were.
C20_OnlyLogicalShapeChanges ==
    [][WithinCapacity =>
          /\ g2'.mem = g2.mem
          /\ Len(g2'.values) = Len(g2.values)]_vars

\* what such a step does
InPlace ==
    WithinCapacity =>
        /\ g2ret' = OkRet
        /\ g2'.dims = g2call'.args
        /\ Len(g2'.values) = Len(g2.values)
        /\ g2'.mem = IF memFits(g2, g2call'.args) THEN g2.mem ELSE g2call'.args
        /\ g2call'.op = "SetSizeN" =>
                \A i \in 1..Len(g2'.values) : g2'.values[i] = 0
        /\ (g2call'.op = "ResizeN" /\ memFits(g2, g2call'.args)) =>
                \A i \in 1..Len(g2.values) :
                    g2'.values[i] =
                        IF \E o \in Coordinates(g2.dims) : indexN(g2.mem, o).n = i - 1
                        THEN g2.values[i] ELSE 0

\* C20, amended: such a step keeps the backing array and its capacity; it
\* keeps the layout mem when no new length is above mem's length on its
\* axis, and makes the new lengths the layout otherwise; SetSizeN zeroes the
\* backing array; ResizeN, when the layout is kept, keeps the elements of
\* the old logical shape in place and zeroes the rest of the backing array.
C20_InPlaceResize == [][InPlace]_vars

\* a ResizeN within the capacity has changed the layout of the backing array
C20_Witness ==
    /\ g2call.op = "ResizeN" /\ g2call.args = <<1, 5>>
    /\ g2.mem = <<1, 5>> /\ Len(g2.values) = 8
    /\ g2.values[2] = 1

\* the step is a ResizeN of a sized grid to lengths of the same
\* dimensionality
ResizeStep ==
    /\ ~g2.nil /\ g2call'.op = "ResizeN"
    /\ Len(g2call'.args) = Len(g2.dims)

\* after a ResizeN, every coordinate of the matrix that was outside the
\* lengths before the call reads zero
CroppedReadZero ==
    ResizeStep =>
        /\ g2ret' = OkRet
        /\ \A o \in Coordinates(g2'.dims) :
              o \notin Coordinates(g2.dims) => GetN(g2', o) = IntRet(0)

\* C21: the elements a ResizeN crops out are zeroed: after a ResizeN to
\* smaller lengths and a ResizeN back to the larger ones, GetN at every
\* coordinate outside the smaller lengths returns zero. Every ResizeN gives
\* zero at every coordinate that was outside the lengths before it,
\* whatever the backing array held there.
C21_CroppedAreZeroed == [][CroppedReadZero]_vars

\* a ResizeN has cropped a non-zero value out: the matrix is <<1, 1>> in the
\* layout <<2, 4>>, and the value written at (0, 1) is still in the backing
\* array, where the next ResizeN to <<1, 2>> would find it
C21_Witness ==
    /\ g2call.op = "ResizeN" /\ g2call.args = <<1, 1>>
    /\ g2.dims = <<1, 1>> /\ g2.mem = <<2, 4>>
    /\ g2.values[indexN(g2.mem, <<0, 1>>).n + 1] = MaxValue

\* what Compact does, and which calls leave the layout alone
CompactStep ==
    /\ (~g2.nil /\ g2call'.op = "Compact") =>
            /\ g2ret' = OkRet
            /\ g2'.dims = g2.dims
            /\ g2'.mem = g2'.dims
            /\ \A o \in Coordinates(g2.dims) : GetN(g2', o) = GetN(g2, o)
            /\ Compact(g2').m = g2'
    /\ (~g2.nil /\ g2call'.op \in {"SetN", "Clear"}) => g2'.mem = g2.mem

\* C22: after Compact the layout of the backing array is the lengths of the
\* matrix, the backing array holds exactly Volume() elements, and GetN
\* returns what it returned before; a second Compact changes nothing, and
\* SetN and Clear never change the layout.
C22_CompactIsExact ==
    [][/\ CompactStep
       /\ (~g2.nil /\ g2call'.op = "Compact") =>
               Len(g2'.values) = Volume(g2'.dims)]_vars

\* C22 without the size of the backing array: the layout, the values and
\* the second Compact are as the claim says
C22_CompactKeepsValues == [][CompactStep]_vars

\* the layout of the backing array covers the lengths of the matrix, and
\* the backing array holds the layout
MemCovers(g) ==
    /\ Len(g.mem) >= Len(g.dims)
    /\ \A i \in 1..Len(g.dims) : g.mem[i] >= g.dims[i]
    /\ Len(g.values) >= Volume(g.mem)

\* C30: in every state of a grid sized with lengths >= 1, the layout of
\* the backing array covers the lengths of the matrix on every axis, and the
\* backing array holds at least the volume of the layout, so that GetN at
\* every coordinate inside the matrix reads inside the backing array.
C30_MemCoversDims ==
    ~g2.nil =>
        /\ MemCovers(g2)
        /\ \A o \in Coordinates(g2.dims) : GetN(g2, o).tag = "int"

\* a matrix of fewer dimensions than its backing array, which has spare
\* elements on both axes
C30_Witness ==
    /\ ~g2.nil /\ g2.dims = <<2>> /\ g2.mem = <<2, 4>>
    /\ Len(g2.values) = 8
    /\ g2.values[2] = MaxValue

----------------------------------------------------------------------------
(* Properties of Reduce *)

\* the value the matrix of rm holds at a coordinate
RValue(o) ==
    IF rm.pkg = "matrix2" THEN GetN(rm.g, o).n ELSE matrixGet(rm.g, o).n

\* the sum of the values at the coordinates of the set
RECURSIVE SumOver(_)
SumOver(S) ==
    IF S = {} THEN 0
    ELSE LET o == CHOOSE x \in S : TRUE IN RValue(o) + SumOver(S \ {o})

\* the result of folding the sum function over the value at every coordinate
\* once, from the identity: the three functions give the same result in
\* every order
Folded(identity, sum) ==
    IF sum = "add" THEN identity + SumOver(Coordinates(rm.g.dims))
    ELSE IF sum = "sub" THEN identity - SumOver(Coordinates(rm.g.dims))
    ELSE identity + Volume(rm.g.dims)

ReduceFolds ==
    rcall.op = "Reduce" => rret = IntRet(Folded(rcall.args[1], rcall.args[2]))

\* C23: Reduce(m, identity, sum) returns the result of folding sum over the
\* value at every coordinate of m once, zero values included, from identity
\* on: identity plus the sum of the values for addition, and identity plus
\* the number of elements for a function that counts its applications, which
\* is never identity for a matrix of at least one element.
C23_ReduceFolds == ReduceFolds

\* C23 for the Reduce of matrix2 alone
C23_ReduceOfMatrix2 == rm.pkg = "matrix2" => ReduceFolds

----------------------------------------------------------------------------
(* Properties of bitseq.Store *)

\* the indexes of the true bits of the store
TrueBits(s) ==
    {((i - 1) * BucketBits) + j : i \in 1..Len(s.buckets), j \in 0..(BucketBits - 1)}
        \cap {x \in 0..(Len(s.buckets) * BucketBits) :
                 getFromBucket(s, GoDiv(x, BucketBits), GoMod(x, BucketBits))}

\* the smallest true bit after the index, or (-1, false) when there is none
FirstTrueAfter(s, after) ==
    LET later == {x \in TrueBits(s) : x > after}
    IN  IF later = {} THEN NextRet(-1, FALSE)
        ELSE NextRet(CHOOSE x \in later : \A y \in later : x <= y, TRUE)

NextTrueIsFirst ==
    bcall.op = "NextTrue" => bret = FirstTrueAfter(bs, bcall.args[1])

\* C24: after any sequence of Set calls, NextTrue(after) returns (i, true)
\* for the smallest index i greater than after whose bit is true, wherever
\* the bit lies in its bucket, and returns false exactly when no bit after
\* the index is true.
C24_NextTrueIsFirst == NextTrueIsFirst

\* C24 for stores whose true bits all lie in the lower half of their bucket
C24_InLowerHalf ==
    (\A x \in TrueBits(bs) : GoMod(x, BucketBits) < BucketBits \div 2)
        => NextTrueIsFirst

----------------------------------------------------------------------------
(* Properties of genarray.Store *)

\* the value the caller inserted under a key it holds and has not deleted
LiveValue(key) == (CHOOSE kv \in gkeys.live : kv[1] = key)[2]
IsLive(key) == \E kv \in gkeys.live : kv[1] = key

\* what a call on the store does, seen by a caller that keeps its keys
GenStep ==
    /\ (~ga.nil /\ gcall'.op = "Insert") =>
            /\ gret'.tag = "key"
            /\ gret'.v \notin HeldKeys
    /\ (~ga.nil /\ gcall'.op = "Get") =>
            gret' = IF IsLive(gcall'.args)
                    THEN FoundRet(LiveValue(gcall'.args), TRUE)
                    ELSE FoundRet(0, FALSE)
    /\ (~ga.nil /\ gcall'.op = "Delete") =>
            gret' = IF IsLive(gcall'.args) THEN OkRet ELSE ErrRet("not found")
    /\ (~ga.nil /\ gcall'.op = "Count") =>
            gret' = IntRet(Cardinality(gkeys.live))

\* C25: from the zero-value Store on, every key Insert returns differs from
\* every key returned before; Get returns the inserted value for every key
\* inserted and not deleted; once deleted, a key is not found by Get and by
\* Delete, also after its slot has been used again; Count() is the number of
\* keys inserted and not deleted.
C25_KeysStayValid == [][GenStep]_vars

\* C25 for the version of the Store without mask and limit
C25_WithoutMask == [][~ga.masked => GenStep]_vars

\* in the version without mask, a slot has been used again: the caller
\* holds a deleted key and a live key of the same index
C25_SlotReused ==
    /\ ~ga.nil /\ ~ga.masked
    /\ \E d \in gkeys.dead : \E kv \in gkeys.live :
          kv[1][1] = d[1] /\ kv[1][2] # d[2]

----------------------------------------------------------------------------
(* Properties of package checked *)

\* the exact result of the call
Exact(op, a, b) ==
    IF op = "Add" THEN a + b ELSE IF op = "Sub" THEN a - b ELSE a * b

\* the call returned (exact result, true) when a, b and the exact result lie
\* between min and max, and (0, false) otherwise
CheckedIsExact ==
    LET min == kcall.args[2]
        max == kcall.args[3]
        a   == kcall.args[4]
        b   == kcall.args[5]
        x   == Exact(kcall.op, a, b)
    IN  kret = IF /\ min <= a /\ a <= max /\ min <= b /\ b <= max
                  /\ min <= x /\ x <= max
               THEN CheckedRet(x, TRUE)
               ELSE CheckedRet(0, FALSE)

\* C26: for limits min <= max, Add, Sub and Mul return (exact result, true)
\* exactly when a, b and the exact result all lie between min and max, and
\* (0, false) otherwise, also when an expression of the function or the
\* machine result overflows the width of the type.
C26_CheckedIsExact ==
    (kcall.op \in {"Add", "Sub", "Mul"} /\ kcall.args[2] <= kcall.args[3])
        => CheckedIsExact

\* C26 for Add alone
C26_AddIsExact ==
    (kcall.op = "Add" /\ kcall.args[2] <= kcall.args[3]) => CheckedIsExact


\* side^0 + side^1 + ... + side^(d-1)
RECURSIVE SumOfPowers(_, _)
SumOfPowers(side, d) ==
    IF d = 0 THEN 0 ELSE 1 + side * SumOfPowers(side, d - 1)

\* the flat indexes k*n of the Diagonal m whose stored value k is not zero,
\* in ascending order
RECURSIVE nonZeroFrom(_, _)
nonZeroFrom(m, k) ==
    IF k >= Len(m.values) THEN <<>>
    ELSE (IF m.values[k + 1] # 0
          THEN <<k * SumOfPowers(Len(m.values), Dimensionality(m.D))>>
          ELSE <<>>) \o nonZeroFrom(m, k + 1)

NonZeroDiagonal(m) == nonZeroFrom(m, 0)

\* a Diagonal of side length >= 1 is held
DiagonalHeld ==
    /\ ms["Diagonal"] # NoMatrix
    /\ Len(ms["Diagonal"].values) >= 1

\* C27: on a Diagonal of dimensionality d >= 1 and side length >= 1, Next
\* called repeatedly from -1 returns in ascending order exactly the flat
\* indexes k*n whose stored diagonal value is not zero, index 0 included,
\* and then false; no call panics.
C27_NextWalksDiagonal ==
    DiagonalHeld => Walk(ms["Diagonal"]) = NonZeroDiagonal(ms["Diagonal"])

\* what Next does return: in two dimensions of side 2 or more, the indexes
\* of C27 except index 0
C27_NextSkipsFirst ==
    (DiagonalHeld /\ Dimensionality(MD) >= 2 /\ Len(ms["Diagonal"].values) >= 2)
        => Walk(ms["Diagonal"]) =
               SelectSeq(NonZeroDiagonal(ms["Diagonal"]), LAMBDA i : i # 0)

----------------------------------------------------------------------------
(* Properties of diagonalOffset *)

\* C28: for dimensionality d and side length s, a flat index idx of
\* [0, s^d) is on the diagonal (its offsets are all the same) exactly when
\* it is a multiple of n = s^0 + s^1 + ... + s^(d-1); diagonalOffset then
\* gives the stored value idx / n, and -1 otherwise; the coordinate
\* (k, ..., k) has the flat index k*n.
C28_DiagonalIsEveryNth ==
    ocall.op = "diagonalOffset" =>
        LET d   == ocall.args[1]
            s   == ocall.args[2]
            idx == ocall.args[3]
            n   == SumOfPowers(s, d)
            D   == NewD(Cube(d, s))
        IN  /\ OnDiagonal(D, idx) <=> (idx % n = 0)
            /\ oret = IntRet(IF idx % n = 0 THEN idx \div n ELSE -1)
            /\ OnDiagonal(D, idx) => oret = IntRet(Offsets(D, idx)[1])
            /\ \A k \in 0..(s - 1) : Index(D, Cube(d, k)) = k * n

\* diagonalOffset was called for the index 18 of the 5 x 5 matrix, the
\* fourth of 0, 6, 12, 18, 24, and gave the stored value 3
C28_Witness ==
    /\ ocall = [op |-> "diagonalOffset", args |-> <<2, 5, 18>>]
    /\ oret = IntRet(3)
    /\ Index(NewD(Cube(2, 5)), <<3, 3>>) = 18

----------------------------------------------------------------------------
(* Properties of the Hashmap *)

\* every index the callers of the model pass to Set and Get
CalledIndexes == PokeIndexes(MD) \cup OutsideIndexes(MD)

\* the keys of the map
Keys(m) == {p[1] : p \in m.values}

\* the map holds no zero value, its keys are the indexes whose Get is not
\* zero, and Get of an absent key returns zero
HashmapIsSparse ==
    ms["Hashmap"] # NoMatrix =>
        LET m == ms["Hashmap"]
        IN  /\ \A p \in m.values : p[2] # 0
            /\ \A p, q \in m.values : p[1] = q[1] => p = q
            /\ Keys(m) \subseteq CalledIndexes
            /\ Cardinality(Keys(m)) =
                   Cardinality({i \in CalledIndexes : HashmapGet(m, i) # IntRet(0)})
            /\ \A i \in CalledIndexes \ Keys(m) : HashmapGet(m, i) = IntRet(0)

\* Set(idx, zero) returns with the key idx removed, and Clear with no key
ZeroSetRemoves ==
    /\ (/\ ms["Hashmap"] # NoMatrix
        /\ mcall'.op = "Set"
        /\ mcall'.args[2] = 0)
           => /\ mret'["Hashmap"] = OkRet
              /\ mcall'.args[1] \notin Keys(ms'["Hashmap"])
              /\ Keys(ms'["Hashmap"]) = Keys(ms["Hashmap"]) \ {mcall'.args[1]}
    /\ (ms["Hashmap"] # NoMatrix /\ mcall'.op = "Clear")
           => Keys(ms'["Hashmap"]) = {}

\* C29: after any sequence of Set and Clear a Hashmap never holds a key whose
\* value is zero, the number of its keys is the number of indexes whose Get
\* is not zero, Get of an absent key returns zero, and Set(idx, zero)
\* removes the key idx.
C29_HashmapStaysSparse == []HashmapIsSparse /\ [][ZeroSetRemoves]_vars

\* Set(1, 0) has been called on a Hashmap of three elements that holds one
\* key, the index 0
C29_Witness ==
    /\ mcall = [op |-> "Set", args |-> <<1, 0>>]
    /\ ms["Hashmap"].D.lens = <<3>>
    /\ ms["Hashmap"].values = {<<0, MaxValue>>}
    /\ HashmapGet(ms["Hashmap"], 1) = IntRet(0)

====
